---- MODULE Spec2Model ----
(***************************************************************************)
(* Lapka: the agent loop (agent.py), the context manager (context.py) and  *)
(* the model client's retry protocol (llm.py).                             *)
(*                                                                         *)
(* A text is a sequence of atoms; an atom is a piece of text of known      *)
(* length (a literal of the source, or an input).  Concatenation is \o,    *)
(* the empty string is <<>>.  An optional value is a sequence of length    *)
(* zero (None) or one.                                                     *)
(***************************************************************************)
EXTENDS Integers, Sequences, FiniteSets, TLC

VARIABLES
    history,             \* ContextManager._full_history
    compaction_summary,  \* ContextManager._compaction_summary (optional text)
    compaction_count,    \* ContextManager._compaction_count
    total_tokens_used,   \* ContextManager._total_tokens_used
    pc,                  \* position of Agent.run ("idle" when no run is active)
    iteration,           \* Agent.run: iteration
    on_output,           \* Agent.run: is the on_output callback supplied
    pending,             \* Agent.run: response.tool_calls of the current response
    tc_i,                \* Agent.run: position of tc in response.tool_calls
    result,              \* Agent.run: result of the tool call being processed
    main_calls,          \* calls of main_llm.chat made by the current run
    invoked,             \* tool functions invoked for the current response
    outcome,             \* how the last run/compact ended
    compact_resp,        \* what the last summarization call of compact gave (optional)
    chat_pc,             \* LLMClient.chat: position
    attempt,             \* LLMClient.chat: index of delay in _RETRY_DELAYS
    requests,            \* LLMClient.chat: responses observed, in order
    sleeps,              \* LLMClient.chat: asyncio.sleep durations, in order
    last_err,            \* LLMClient.chat: last_err (optional)
    chat_ret,            \* LLMClient.chat: the value returned (optional)
    agents,              \* telegram: the keys of _agents
    lists,               \* the list objects the agents' _full_history fields refer to
    ctx_of,              \* the ContextManager of each agent: its list and its other fields
    disk,                \* session_dir: the text of <session_id>.json (optional)
    saved,               \* the ConversationState at the last save of each session id
    acted,               \* the agent the last operation was called on, and what it loaded
    tool_call,           \* _execute_tool: the name and the args it was called with (optional)
    fn_kwargs,           \* _execute_tool: the keyword arguments given to tool_def.fn (optional)
    subprocess_cmd,      \* bash_exec: the command given to create_subprocess_shell (optional)
    tool_text,           \* _execute_tool: the text returned
    proc,                \* bash_exec: the subprocess started and what became of it (optional)
    stream_pc,           \* LLMClient.chat_stream: position
    stream_lines,        \* chat_stream: the lines resp.aiter_lines() has still to give
    stream_read,         \* chat_stream: the lines read so far
    yielded,             \* chat_stream: the fragments yielded so far
    profiles,            \* the LLMProfile objects _config.main and _config.compact
    clients,             \* the LLMClient objects constructed so far, in order
    agent_llm,           \* telegram _agents: main_llm and compact_llm of each agent (optional)
    used,                \* per client: the (api_base, api_key, model) of its requests
    est_texts,           \* estimate_tokens: two texts and the estimate of each
    est_list,            \* estimate_messages_tokens: a list, its estimate before and after the last append
    file_text,           \* the text of the file at path (optional: the file may not exist)
    file_call,           \* files tools: the last call and the file it found (optional)
    file_ret             \* files tools: the text the last call returned

ctxVars == <<history, compaction_summary, compaction_count, total_tokens_used>>
runVars == <<pc, iteration, on_output, pending, tc_i, result, main_calls, invoked, outcome,
            compact_resp>>
chatVars == <<chat_pc, attempt, requests, sleeps, last_err, chat_ret>>
sessVars == <<agents, lists, ctx_of, disk, saved, acted>>
dispVars == <<tool_call, fn_kwargs, subprocess_cmd, tool_text, proc>>
streamVars == <<stream_pc, stream_lines, stream_read, yielded>>
profVars == <<profiles, clients, agent_llm, used>>
estVars == <<est_texts, est_list>>
fileVars == <<file_text, file_call, file_ret>>
auxVars == <<dispVars, streamVars, profVars, estVars, fileVars>>
vars == <<history, compaction_summary, compaction_count, total_tokens_used,
          pc, iteration, on_output, pending, tc_i, result, main_calls, invoked,
          outcome, compact_resp, chat_pc, attempt, requests, sleeps, last_err, chat_ret,
          agents, lists, ctx_of, disk, saved, acted,
          tool_call, fn_kwargs, subprocess_cmd, tool_text, proc,
          stream_pc, stream_lines, stream_read, yielded,
          profiles, clients, agent_llm, used,
          est_texts, est_list, file_text, file_call, file_ret>>

(***************************************************************************)
(* Bounds of the model.                                                    *)
(***************************************************************************)
max_tool_iterations == 2
MaxCalls == 2
MaxHistory == 2
MaxCompactions == 1
MaxSessionMessages == 2

(***************************************************************************)
(* Program constants.                                                      *)
(***************************************************************************)
max_tokens == 4000
ThresholdNum == 8
ThresholdDen == 10
KeepCount == 6

None == <<>>
Some(x) == <<x>>
Min(a, b) == IF a <= b THEN a ELSE b
Max(a, b) == IF a >= b THEN a ELSE b

(***************************************************************************)
(* Texts.                                                                  *)
(***************************************************************************)
AtomLen(a) ==
    CASE a = "SYSTEM_PROMPT" -> 367
      [] a = "COMPACTION_PROMPT" -> 178
      [] a = "[CONTEXT CHECKPOINT - previous conversation summary]\n" -> 53
      [] a = "\n[END CHECKPOINT - continue from here]" -> 38
      [] a = "[Previous checkpoint]\n" -> 22
      [] a = "No summary generated." -> 21
      [] a = "Max tool iterations reached. Stopping." -> 41
      [] a = "\n[Hint: try an alternative approach]" -> 74
      [] a = "X Unknown tool: " -> 16
      [] a = "X Tool error: " -> 14
      [] a = "X ERROR: boom" -> 13
      [] a = "T TIMEOUT after 30s" -> 25
      [] a = "ok (no output)" -> 13
      [] a = "[file - 1 lines]" -> 16
      [] a = "boom" -> 4
      [] a = "TypeError" -> 9
      [] a = "KeyError" -> 8
      [] a = "bash" -> 4
      [] a = "read_file" -> 9
      [] a = "no_such_tool" -> 12
      [] a = "{command: ls}" -> 17
      [] a = "rm -rf" -> 6
      [] a = "null" -> 4
      [] a = "[]" -> 2
      [] a = ", " -> 2
      [] a = "{tool_call}" -> 74
      [] a = "Hi" -> 2
      [] a = "Hello" -> 5
      [] a = "LongText" -> 11000
      [] a = "- summary" -> 9
      [] OTHER -> 1

\* the atoms whose first character is the error mark or the timeout mark
FailureMarked == {"X Unknown tool: ", "X Tool error: ", "X ERROR: boom",
                  "T TIMEOUT after 30s"}

RECURSIVE TextLen(_)
TextLen(t) == IF t = <<>> THEN 0 ELSE AtomLen(Head(t)) + TextLen(Tail(t))

\* str.startswith(("X", "T")) for the two failure marks
StartsWithFailure(t) == t # <<>> /\ Head(t) \in FailureMarked

SYSTEM_PROMPT == <<"SYSTEM_PROMPT">>
COMPACTION_PROMPT == <<"COMPACTION_PROMPT">>
LimitNotice == <<"Max tool iterations reached. Stopping.">>
Hint == <<"\n[Hint: try an alternative approach]">>
NoSummary == <<"No summary generated.">>

\* x or default, for an optional text x
OrText(x, default) == IF x = None \/ x[1] = <<>> THEN default ELSE x[1]

(***************************************************************************)
(* Messages and tool calls.                                                *)
(***************************************************************************)
Msg(role, content) ==
    [role |-> role, content |-> content, tool_calls |-> <<>>, tool_call_id |-> 0]

AssistantMsg(content, tcs) ==
    [role |-> "assistant", content |-> content, tool_calls |-> tcs, tool_call_id |-> 0]

ToolMsg(id, content) ==
    [role |-> "tool", content |-> content, tool_calls |-> <<>>, tool_call_id |-> id]

RECURSIVE JsonDumpsCalls(_)
JsonDumpsCalls(tcs) ==
    IF tcs = <<>> THEN <<>>
    ELSE <<"{tool_call}", Head(tcs).name, Head(tcs).arguments.raw>>
         \o (IF Len(tcs) > 1 THEN <<", ">> ELSE <<>>)
         \o JsonDumpsCalls(Tail(tcs))

\* json.dumps(msg["tool_calls"])
JsonDumps(tcs) == <<"[]">> \o JsonDumpsCalls(tcs)

\* mutant: the quotient is kept in two bits
estimate_tokens_wraps(text) == Max(1, ((2 * TextLen(text)) \div 7) % 4)

\* max(1, int(len(text) / 3.5))
estimate_tokens(text) == Max(1, (2 * TextLen(text)) \div 7)

RECURSIVE estimate_messages_tokens(_)
estimate_messages_tokens(messages) ==
    IF messages = <<>> THEN 0
    ELSE LET msg == Head(messages) IN
         estimate_tokens(msg.content)
         + (IF msg.tool_calls # <<>> THEN estimate_tokens(JsonDumps(msg.tool_calls)) ELSE 0)
         + estimate_messages_tokens(Tail(messages))

(***************************************************************************)
(* ContextManager.                                                         *)
(***************************************************************************)
\* mutant: the checkpoint message is placed after the history
get_messages_summary_last(h, summary) ==
    <<Msg("system", SYSTEM_PROMPT)>>
    \o h
    \o (IF summary # None /\ summary[1] # <<>>
        THEN <<Msg("user", <<"[CONTEXT CHECKPOINT - previous conversation summary]\n">>
                           \o summary[1]
                           \o <<"\n[END CHECKPOINT - continue from here]">>)>>
        ELSE <<>>)

get_messages(h, summary) ==
    <<Msg("system", SYSTEM_PROMPT)>>
    \o (IF summary # None /\ summary[1] # <<>>
        THEN <<Msg("user", <<"[CONTEXT CHECKPOINT - previous conversation summary]\n">>
                           \o summary[1]
                           \o <<"\n[END CHECKPOINT - continue from here]">>)>>
        ELSE <<>>)
    \o h

\* mutant: the raw history is measured instead of the assembled list
needs_compaction_raw(max_tok, num, den, h, summary) ==
    estimate_messages_tokens(h) > (max_tok * num) \div den

\* needs_compaction of a context manager with max_tokens = max_tok and
\* compact_threshold = num / den: int() of the product truncates
needs_compaction_with(max_tok, num, den, h, summary) ==
    estimate_messages_tokens(get_messages(h, summary)) > (max_tok * num) \div den

needs_compaction(h, summary) ==
    needs_compaction_with(max_tokens, ThresholdNum, ThresholdDen, h, summary)

\* the last n elements of s (s[-n:] with 0 < n <= len(s))
LastN(s, n) == SubSeq(s, Len(s) - n + 1, Len(s))

\* summary_messages of compact
summary_messages(h, summary) ==
    <<Msg("system", SYSTEM_PROMPT)>>
    \o (IF summary # None /\ summary[1] # <<>>
        THEN <<Msg("user", <<"[Previous checkpoint]\n">> \o summary[1])>>
        ELSE <<>>)
    \o h
    \o <<Msg("user", COMPACTION_PROMPT)>>

\* What llm_client.chat gives compact: a failure (chat raised), or a
\* response with optional content and optional usage.total_tokens.
LLMFailure == [failed |-> TRUE, content |-> None, tool_calls |-> <<>>, usage |-> None]
Response(content, tcs, usage) ==
    [failed |-> FALSE, content |-> content, tool_calls |-> tcs, usage |-> usage]

CompactResponses ==
    {LLMFailure}
    \cup {Response(None, <<>>, Some(7)), Response(Some(<<"- summary">>), <<>>, None)}

\* the summarization responses drawn inside a run: a failure, or a summary
\* (the responses without text or with usage are drawn by /compact)
RunCompactResponses == {LLMFailure, Response(Some(<<"- summary">>), <<>>, None)}

Ctx(h, s, c, t) == [history |-> h, summary |-> s, count |-> c, total |-> t]

\* mutant: the history is truncated before the summarization call
compact_truncates_first(ctx, r) ==
    IF ctx.history = <<>>
    THEN [ctx |-> ctx, called |-> FALSE, raised |-> FALSE]
    ELSE LET keep_count == Min(KeepCount, Len(ctx.history))
             kept == LastN(ctx.history, keep_count) IN
         IF r.failed
         THEN [ctx |-> [ctx EXCEPT !.history = kept], called |-> TRUE, raised |-> TRUE]
         ELSE [ctx |-> [history |-> kept,
                        summary |-> Some(OrText(r.content, NoSummary)),
                        count |-> ctx.count + 1,
                        total |-> IF r.usage # None THEN ctx.total + r.usage[1]
                                                    ELSE ctx.total],
               called |-> TRUE, raised |-> FALSE]

\* mutant: the first messages are kept instead of the last
compact_keeps_first(ctx, r) ==
    IF ctx.history = <<>>
    THEN [ctx |-> ctx, called |-> FALSE, raised |-> FALSE]
    ELSE IF r.failed
    THEN [ctx |-> ctx, called |-> TRUE, raised |-> TRUE]
    ELSE LET keep_count == Min(KeepCount, Len(ctx.history)) IN
         [ctx |-> [history |-> SubSeq(ctx.history, 1, keep_count),
                   summary |-> Some(OrText(r.content, NoSummary)),
                   count |-> ctx.count + 1,
                   total |-> IF r.usage # None THEN ctx.total + r.usage[1]
                                               ELSE ctx.total],
          called |-> TRUE, raised |-> FALSE]

\* mutant: the usage of the summarization call is not accumulated
compact_drops_usage(ctx, r) ==
    IF ctx.history = <<>>
    THEN [ctx |-> ctx, called |-> FALSE, raised |-> FALSE]
    ELSE IF r.failed
    THEN [ctx |-> ctx, called |-> TRUE, raised |-> TRUE]
    ELSE LET keep_count == Min(KeepCount, Len(ctx.history)) IN
         [ctx |-> [history |-> LastN(ctx.history, keep_count),
                   summary |-> Some(OrText(r.content, NoSummary)),
                   count |-> ctx.count + 1,
                   total |-> ctx.total],
          called |-> TRUE, raised |-> FALSE]

\* mutant: the summarization call is made on an empty history too
compact_calls_on_empty(ctx, r) ==
    IF r.failed
    THEN [ctx |-> ctx, called |-> TRUE, raised |-> TRUE]
    ELSE LET keep_count == Min(KeepCount, Len(ctx.history)) IN
         [ctx |-> [history |-> LastN(ctx.history, keep_count),
                   summary |-> Some(OrText(r.content, NoSummary)),
                   count |-> ctx.count + 1,
                   total |-> IF r.usage # None THEN ctx.total + r.usage[1]
                                               ELSE ctx.total],
          called |-> TRUE, raised |-> FALSE]

\* mutant: the first message and the last keep_count - 1 messages are kept
compact_drops_middle(ctx, r) ==
    IF ctx.history = <<>>
    THEN [ctx |-> ctx, called |-> FALSE, raised |-> FALSE]
    ELSE IF r.failed
    THEN [ctx |-> ctx, called |-> TRUE, raised |-> TRUE]
    ELSE LET keep_count == Min(KeepCount, Len(ctx.history)) IN
         [ctx |-> [history |-> <<Head(ctx.history)>>
                               \o LastN(ctx.history, keep_count - 1),
                   summary |-> Some(OrText(r.content, NoSummary)),
                   count |-> ctx.count + 1,
                   total |-> IF r.usage # None THEN ctx.total + r.usage[1]
                                               ELSE ctx.total],
          called |-> TRUE, raised |-> FALSE]

\* compact: ctx is the ConversationState, r the result of llm_client.chat.
\* called: was llm_client.chat called; raised: did compact raise.
compact(ctx, r) ==
    IF ctx.history = <<>>
    THEN [ctx |-> ctx, called |-> FALSE, raised |-> FALSE]
    ELSE IF r.failed
    THEN [ctx |-> ctx, called |-> TRUE, raised |-> TRUE]
    ELSE LET keep_count == Min(KeepCount, Len(ctx.history)) IN
         [ctx |-> [history |-> LastN(ctx.history, keep_count),
                   summary |-> Some(OrText(r.content, NoSummary)),
                   count |-> ctx.count + 1,
                   total |-> IF r.usage # None THEN ctx.total + r.usage[1]
                                               ELSE ctx.total],
          called |-> TRUE, raised |-> FALSE]

\* ContextManager.update_actual_tokens is called by Agent.run but is not
\* defined in context.py; the ConversationState of the specification has no
\* field for it, so it leaves the cumulative total as it is.
update_actual_tokens(total, prompt_tokens) == total

(***************************************************************************)
(* Tool registry and tool dispatch.                                        *)
(***************************************************************************)
\* the registry (_TOOLS), two of the registered names
TOOLS == {"bash", "read_file"}

get_tool(name) == name \in TOOLS

\* tc["function"]["arguments"]: a JSON object, a text that is not JSON, and
\* a JSON value that is not an object
ObjectPayload == [raw |-> "{command: ls}", valid |-> TRUE, is_dict |-> TRUE]
MalformedPayload == [raw |-> "rm -rf", valid |-> FALSE, is_dict |-> FALSE]
ScalarPayload == [raw |-> "null", valid |-> TRUE, is_dict |-> FALSE]
ArgPayloads == {ObjectPayload, MalformedPayload, ScalarPayload}

\* json.loads(arguments), with the JSONDecodeError fallback {"command": raw}
parse_args(payload) ==
    IF payload.valid
    THEN [is_dict |-> payload.is_dict,
          keys |-> IF payload.is_dict THEN {"command"} ELSE {}]
    ELSE [is_dict |-> TRUE, keys |-> {"command"}]

\* _summarize_args raises TypeError on an args value that is no container
summarize_args_raises(args) == ~args.is_dict

\* what a tool function does when it is invoked: return a text or raise.
\* bash_exec returns its output or a timeout text, or raises on its keyword
\* arguments; read_file returns the numbered lines.
ToolBehaviours(name) ==
    IF name = "bash"
    THEN { [raises |-> FALSE, text |-> <<"ok (no output)">>],
           [raises |-> FALSE, text |-> <<"T TIMEOUT after 30s">>],
           [raises |-> TRUE, text |-> <<"boom">>] }
    ELSE { [raises |-> FALSE, text |-> <<"[file - 1 lines]">>] }

BashDefaults == {"working_directory", "timeout", "blocked_commands"}

\* mutant: the registry lookup raises KeyError for a name it does not hold
execute_tool_lookup_raises(name, args, beh) ==
    IF ~get_tool(name)
    THEN [text |-> <<"X Tool error: ", "KeyError">>, invoked |-> FALSE, keys |-> {}]
    ELSE IF ~args.is_dict
    THEN [text |-> <<"X Tool error: ", "TypeError">>, invoked |-> FALSE, keys |-> {}]
    ELSE LET keys == IF name = "bash" THEN args.keys \cup BashDefaults ELSE args.keys IN
         IF beh.raises
         THEN [text |-> <<"X Tool error: ">> \o beh.text, invoked |-> TRUE, keys |-> keys]
         ELSE [text |-> beh.text, invoked |-> TRUE, keys |-> keys]

\* _execute_tool: the text returned, whether tool_def.fn was invoked, and
\* the keyword arguments it was invoked with
execute_tool(name, args, beh) ==
    IF ~get_tool(name)
    THEN [text |-> <<"X Unknown tool: ", name>>, invoked |-> FALSE, keys |-> {}]
    ELSE IF ~args.is_dict
    THEN [text |-> <<"X Tool error: ", "TypeError">>, invoked |-> FALSE, keys |-> {}]
    ELSE LET keys == IF name = "bash" THEN args.keys \cup BashDefaults ELSE args.keys IN
         IF beh.raises
         THEN [text |-> <<"X Tool error: ">> \o beh.text, invoked |-> TRUE, keys |-> keys]
         ELSE [text |-> beh.text, invoked |-> TRUE, keys |-> keys]

\* mutant: the nudge is appended to every result
with_hint_always(text) == text \o Hint

\* the nudge appended to a result that starts with a failure mark
with_hint(text) == IF StartsWithFailure(text) THEN text \o Hint ELSE text

(***************************************************************************)
(* Sessions: one Agent, hence one ContextManager, per user (telegram), and *)
(* the checkpoints of the shared session directory.  _full_history is a    *)
(* reference to a list object: append and clear change the object in       *)
(* place, a slice or a loaded checkpoint is a new object.                  *)
(***************************************************************************)
Users == {1, 2}
SessionIds == {"s1", "s2"}

\* the object created by field(default_factory=list) for the agent of user u:
\* a list of its own (object 0 is the list a shared default would be)
\* mutant: one default list shared by all instances
new_history_list_shared(u) == 0

new_history_list(u) == u

\* the fields of a user without an agent
NoCtx == [list |-> 0, summary |-> None, count |-> 0, total |-> 0]
NoOne == [user |-> 0, loaded |-> None]
Acted(u, loaded) == [user |-> u, loaded |-> loaded]

\* json.dumps of an optional text: null or a string
JNull == [t |-> "null"]
JStr(x) == [t |-> "string", v |-> x]
json_optional(x) == IF x = None THEN JNull ELSE JStr(x[1])

\* json.dumps of a message dict: an object with the keys the dict has
msg_to_json(m) ==
    IF m.tool_calls # <<>>
    THEN [role |-> m.role, content |-> m.content, tool_calls |-> m.tool_calls]
    ELSE IF m.role = "tool"
    THEN [role |-> m.role, tool_call_id |-> m.tool_call_id, content |-> m.content]
    ELSE [role |-> m.role, content |-> m.content]

\* json.loads of a message object: the dict with the keys of the object
msg_from_json(o) ==
    [role |-> o.role,
     content |-> o.content,
     tool_calls |-> IF "tool_calls" \in DOMAIN o THEN o.tool_calls ELSE <<>>,
     tool_call_id |-> IF "tool_call_id" \in DOMAIN o THEN o.tool_call_id ELSE 0]

\* the text written by save_checkpoint: json.dumps(data)
checkpoint_json(session_id, ctx) ==
    [session_id |-> session_id,
     compaction_summary |-> json_optional(ctx.summary),
     compaction_count |-> ctx.count,
     total_tokens_used |-> ctx.total,
     history |-> [i \in 1..Len(ctx.history) |-> msg_to_json(ctx.history[i])]]

\* mutant: the token total is not restored
load_state_keeps_total(ctx, doc) ==
    [history |-> [i \in 1..Len(doc.history) |-> msg_from_json(doc.history[i])],
     summary |-> IF doc.compaction_summary.t = "null" THEN None
                 ELSE Some(doc.compaction_summary.v),
     count |-> doc.compaction_count,
     total |-> ctx.total]

\* the fields load_checkpoint assigns from json.loads(path.read_text())
load_state(ctx, doc) ==
    [history |-> [i \in 1..Len(doc.history) |-> msg_from_json(doc.history[i])],
     summary |-> IF doc.compaction_summary.t = "null" THEN None
                 ELSE Some(doc.compaction_summary.v),
     count |-> doc.compaction_count,
     total |-> doc.total_tokens_used]

\* the ConversationState of the agent of user u
SessionState(u) ==
    Ctx(lists[ctx_of[u].list], ctx_of[u].summary, ctx_of[u].count, ctx_of[u].total)

\* the messages appended by a run
SessionMessages ==
    {Msg("user", <<"Hi">>), AssistantMsg(<<>>, <<[id |-> 11, name |-> "bash",
                                                  arguments |-> ObjectPayload]>>)}

\* the summarization response of the session operations
SessionCompactResponses == {LLMFailure, Response(None, <<>>, Some(7))}

\* _get_agent(user_id) for a user without an agent: Agent(_config)
GetAgent(u) ==
    /\ u \notin agents
    /\ agents' = agents \cup {u}
    /\ ctx_of' = [ctx_of EXCEPT ![u] = [list |-> new_history_list(u), summary |-> None,
                                        count |-> 0, total |-> 0]]
    /\ acted' = Acted(u, None)
    /\ UNCHANGED <<lists, disk, saved>>
    /\ UNCHANGED <<ctxVars, runVars, chatVars>>
    /\ UNCHANGED auxVars

\* add_message / add_raw, as run calls them: append in place
AddMessageOf(u, m) ==
    /\ u \in agents
    /\ Len(lists[ctx_of[u].list]) < MaxSessionMessages
    /\ lists' = [lists EXCEPT ![ctx_of[u].list] = Append(@, m)]
    /\ acted' = Acted(u, None)
    /\ UNCHANGED <<agents, ctx_of, disk, saved>>
    /\ UNCHANGED <<ctxVars, runVars, chatVars>>
    /\ UNCHANGED auxVars

\* compact of the agent of user u: the kept slice is a new list
CompactOf(u, r) ==
    /\ u \in agents
    /\ ctx_of[u].count < MaxCompactions
    /\ LET c == compact(SessionState(u), r)
           done == c.called /\ ~c.raised IN
       /\ lists' = IF done THEN [lists EXCEPT ![u] = c.ctx.history] ELSE lists
       /\ ctx_of' = [ctx_of EXCEPT ![u] =
                        [list |-> IF done THEN u ELSE @.list, summary |-> c.ctx.summary,
                         count |-> c.ctx.count, total |-> c.ctx.total]]
    /\ acted' = Acted(u, None)
    /\ UNCHANGED <<agents, disk, saved>>
    /\ UNCHANGED <<ctxVars, runVars, chatVars>>
    /\ UNCHANGED auxVars

\* reset of the agent of user u: the list is cleared in place
ResetOf(u) ==
    /\ u \in agents
    /\ lists' = [lists EXCEPT ![ctx_of[u].list] = <<>>]
    /\ ctx_of' = [ctx_of EXCEPT ![u] = [list |-> @.list, summary |-> None,
                                        count |-> 0, total |-> 0]]
    /\ acted' = Acted(u, None)
    /\ UNCHANGED <<agents, disk, saved>>
    /\ UNCHANGED <<ctxVars, runVars, chatVars>>
    /\ UNCHANGED auxVars

\* save_checkpoint(session_id) of the agent of user u
SaveCheckpoint(u, session_id) ==
    /\ u \in agents
    /\ disk' = [disk EXCEPT ![session_id] = Some(checkpoint_json(session_id, SessionState(u)))]
    /\ saved' = [saved EXCEPT ![session_id] = Some(SessionState(u))]
    /\ acted' = Acted(u, None)
    /\ UNCHANGED <<agents, lists, ctx_of>>
    /\ UNCHANGED <<ctxVars, runVars, chatVars>>
    /\ UNCHANGED auxVars

\* load_checkpoint(session_id) of the agent of user u: False when there is
\* no file, else the fields are assigned from the parsed text
LoadCheckpoint(u, session_id) ==
    /\ u \in agents
    /\ IF disk[session_id] = None
       THEN /\ acted' = Acted(u, None)
            /\ UNCHANGED <<lists, ctx_of>>
       ELSE LET st == load_state(SessionState(u), disk[session_id][1]) IN
            /\ lists' = [lists EXCEPT ![u] = st.history]
            /\ ctx_of' = [ctx_of EXCEPT ![u] = [list |-> u, summary |-> st.summary,
                                                count |-> st.count, total |-> st.total]]
            /\ acted' = Acted(u, Some(session_id))
    /\ UNCHANGED <<agents, disk, saved>>
    /\ UNCHANGED <<ctxVars, runVars, chatVars>>
    /\ UNCHANGED auxVars

(***************************************************************************)
(* Agent.run.                                                              *)
(***************************************************************************)
UserTexts == {<<"Hi">>, <<"LongText">>}

ToolCall(id, name, payload) == [id |-> id, name |-> name, arguments |-> payload]

\* the (name, arguments) pairs of a response with one tool call, and of a
\* response with several
SingleCalls ==
    { <<"bash", ObjectPayload>>, <<"bash", ScalarPayload>>,
      <<"read_file", ObjectPayload>>, <<"no_such_tool", MalformedPayload>> }
MultiCalls == { <<"read_file", ObjectPayload>> }

\* the tool_calls lists of a response in iteration it: 1..MaxCalls calls,
\* ids unique within the turn
ToolCallLists(it) ==
    { <<ToolCall(10 * it + 1, c[1], c[2])>> : c \in SingleCalls }
    \cup UNION { { [i \in 1..n |-> ToolCall(10 * it + i, cs[i][1], cs[i][2])] :
                     cs \in [1..n -> MultiCalls] } : n \in 2..MaxCalls }

\* the responses of main_llm.chat in iteration it
MainResponses(it) ==
    {Response(c, <<>>, u) : c \in {None, Some(<<"Hello">>)}, u \in {None, Some(5)}}
    \cup {Response(None, tcs, u) : tcs \in ToolCallLists(it), u \in {None, Some(5)}}

\* LLMProfile: the default api_base, and the two profile objects of a
\* loaded configuration (main with its own endpoint and key, compact with
\* the defaults)
DefaultApiBase == "https://openrouter.ai/api/v1"
ProfileOf(api_base, api_key, model) ==
    [api_base |-> api_base, api_key |-> api_key, model |-> model]
ConfigProfiles ==
    [main |-> ProfileOf("https://llm.example/v1", "k1", "m1"),
     compact |-> ProfileOf(DefaultApiBase, "", "qwen")]

NoOutcome == [op |-> "none", kind |-> "none", text |-> <<>>, err |-> ""]
Returned(op, text) == [op |-> op, kind |-> "returned", text |-> text, err |-> ""]
Raised(op, err) == [op |-> op, kind |-> "raised", text |-> <<>>, err |-> err]

\* the locals of run when no run is active
RunIdle ==
    /\ pc' = "idle"
    /\ iteration' = 0
    /\ on_output' = FALSE
    /\ pending' = <<>>
    /\ tc_i' = 0
    /\ result' = <<>>
    /\ main_calls' = 0
    /\ invoked' = <<>>

RunRaises(err) ==
    /\ RunIdle
    /\ outcome' = Raised("run", err)

Init ==
    /\ history = <<>>
    /\ compaction_summary = None
    /\ compaction_count = 0
    /\ total_tokens_used = 0
    /\ pc = "idle"
    /\ iteration = 0
    /\ on_output = FALSE
    /\ pending = <<>>
    /\ tc_i = 0
    /\ result = <<>>
    /\ main_calls = 0
    /\ invoked = <<>>
    /\ outcome = NoOutcome
    /\ compact_resp = None
    /\ chat_pc = "idle"
    /\ attempt = 0
    /\ requests = <<>>
    /\ sleeps = <<>>
    /\ last_err = None
    /\ chat_ret = None
    /\ agents = {}
    /\ lists = [o \in {0} \cup Users |-> <<>>]
    /\ ctx_of = [u \in Users |-> NoCtx]
    /\ disk = [s \in SessionIds |-> None]
    /\ saved = [s \in SessionIds |-> None]
    /\ acted = NoOne
    /\ tool_call = None
    /\ fn_kwargs = None
    /\ subprocess_cmd = None
    /\ tool_text = <<>>
    /\ proc = None
    /\ stream_pc = "idle"
    /\ stream_lines = <<>>
    /\ stream_read = <<>>
    /\ yielded = <<>>
    /\ profiles = ConfigProfiles
    /\ clients = <<>>
    /\ agent_llm = [u \in Users |-> None]
    /\ used = <<>>
    /\ est_texts = [a |-> <<>>, b |-> <<>>, tokens_a |-> estimate_tokens(<<>>),
                    tokens_b |-> estimate_tokens(<<>>)]
    /\ est_list = [messages |-> <<>>, before |-> 0, after |-> 0]
    /\ file_text = None
    /\ file_call = None
    /\ file_ret = <<>>

\* run is called: the user message is appended and the loop starts
StartRun(user_message, cb) ==
    /\ pc = "idle"
    /\ Len(history) <= MaxHistory
    /\ compaction_count < MaxCompactions
    /\ history' = Append(history, Msg("user", user_message))
    /\ pc' = "loop"
    /\ iteration' = 0
    /\ on_output' = cb
    /\ main_calls' = 0
    /\ outcome' = NoOutcome
    /\ UNCHANGED <<compaction_summary, compaction_count, total_tokens_used,
                   pending, tc_i, result, invoked>>
    /\ UNCHANGED chatVars
    /\ UNCHANGED sessVars
    /\ UNCHANGED auxVars
    /\ compact_resp' = None

\* mutant: the loop condition is off by one
loop_continues_off_by_one(it) == it <= max_tool_iterations

\* while iteration < self.config.max_tool_iterations
loop_continues(it) == it < max_tool_iterations

\* mutant: the model is called without looking at needs_compaction
LoopStep_skips_compaction ==
    /\ pc = "loop"
    /\ IF loop_continues(iteration)
       THEN /\ iteration' = iteration + 1
            /\ pc' = "chat"
            /\ UNCHANGED <<history, on_output, main_calls, outcome>>
       ELSE /\ history' = Append(history, Msg("assistant", LimitNotice))
            /\ RunIdle
            /\ outcome' = Returned("run", LimitNotice)
    /\ UNCHANGED <<compaction_summary, compaction_count, total_tokens_used>>
    /\ IF loop_continues(iteration)
       THEN UNCHANGED <<pending, tc_i, result, invoked>>
       ELSE TRUE
    /\ UNCHANGED chatVars
    /\ UNCHANGED sessVars
    /\ UNCHANGED auxVars
    /\ UNCHANGED compact_resp

\* the loop condition, iteration += 1 and needs_compaction; at the cap the
\* notice is recorded and returned
LoopStep ==
    /\ pc = "loop"
    /\ IF loop_continues(iteration)
       THEN /\ iteration' = iteration + 1
            /\ pc' = IF needs_compaction(history, compaction_summary)
                     THEN (IF on_output THEN "notice" ELSE "compact")
                     ELSE "chat"
            /\ UNCHANGED <<history, on_output, main_calls, outcome>>
       ELSE /\ history' = Append(history, Msg("assistant", LimitNotice))
            /\ RunIdle
            /\ outcome' = Returned("run", LimitNotice)
    /\ UNCHANGED <<compaction_summary, compaction_count, total_tokens_used>>
    /\ IF loop_continues(iteration)
       THEN UNCHANGED <<pending, tc_i, result, invoked>>
       ELSE TRUE
    /\ UNCHANGED chatVars
    /\ UNCHANGED sessVars
    /\ UNCHANGED auxVars
    /\ UNCHANGED compact_resp

\* on_output("Compacting context..."): the callback returns or raises
CompactNotice ==
    /\ pc = "notice"
    /\ \/ /\ pc' = "compact"
          /\ UNCHANGED <<iteration, on_output, pending, tc_i, result, main_calls,
                         invoked, outcome>>
       \/ RunRaises("on_output")
    /\ UNCHANGED ctxVars
    /\ UNCHANGED chatVars
    /\ UNCHANGED sessVars
    /\ UNCHANGED auxVars
    /\ UNCHANGED compact_resp

\* self.ctx.compact(self.compact_llm) inside run
CompactInRun ==
    /\ pc = "compact"
    /\ \E r \in RunCompactResponses :
          LET c == compact(Ctx(history, compaction_summary, compaction_count,
                               total_tokens_used), r) IN
          /\ history' = c.ctx.history
          /\ compaction_summary' = c.ctx.summary
          /\ compaction_count' = c.ctx.count
          /\ total_tokens_used' = c.ctx.total
          /\ compact_resp' = IF c.called THEN Some(r) ELSE compact_resp
          /\ IF c.raised
             THEN RunRaises("compaction")
             ELSE /\ pc' = "chat"
                  /\ UNCHANGED <<iteration, on_output, pending, tc_i, result,
                                 main_calls, invoked, outcome>>
    /\ UNCHANGED chatVars
    /\ UNCHANGED sessVars
    /\ UNCHANGED auxVars

\* mutant: the final answer is returned without being recorded
ChatMain_drops_answer ==
    /\ pc = "chat"
    /\ \E r \in {LLMFailure} \cup MainResponses(iteration) :
          IF r.failed
          THEN /\ RunRaises("llm")
               /\ UNCHANGED ctxVars
          ELSE /\ total_tokens_used' =
                     IF r.usage # None
                     THEN update_actual_tokens(total_tokens_used, r.usage[1])
                     ELSE total_tokens_used
               /\ UNCHANGED <<compaction_summary, compaction_count>>
               /\ IF r.tool_calls = <<>>
                  THEN /\ UNCHANGED history
                       /\ RunIdle
                       /\ outcome' = Returned("run", OrText(r.content, <<>>))
                  ELSE /\ history' = Append(history,
                                        AssistantMsg(OrText(r.content, <<>>), r.tool_calls))
                       /\ pending' = r.tool_calls
                       /\ tc_i' = 1
                       /\ pc' = "tool_begin"
                       /\ main_calls' = main_calls + 1
                       /\ invoked' = <<>>
                       /\ UNCHANGED <<iteration, on_output, result, outcome>>
    /\ UNCHANGED chatVars
    /\ UNCHANGED sessVars
    /\ UNCHANGED auxVars
    /\ UNCHANGED compact_resp

\* get_messages, main_llm.chat and the handling of its response
ChatMain ==
    /\ pc = "chat"
    /\ \E r \in {LLMFailure} \cup MainResponses(iteration) :
          IF r.failed
          THEN /\ RunRaises("llm")
               /\ UNCHANGED ctxVars
          ELSE /\ total_tokens_used' =
                     IF r.usage # None
                     THEN update_actual_tokens(total_tokens_used, r.usage[1])
                     ELSE total_tokens_used
               /\ UNCHANGED <<compaction_summary, compaction_count>>
               /\ IF r.tool_calls = <<>>
                  THEN /\ history' = Append(history, Msg("assistant", OrText(r.content, <<>>)))
                       /\ RunIdle
                       /\ outcome' = Returned("run", OrText(r.content, <<>>))
                  ELSE /\ history' = Append(history,
                                        AssistantMsg(OrText(r.content, <<>>), r.tool_calls))
                       /\ pending' = r.tool_calls
                       /\ tc_i' = 1
                       /\ pc' = "tool_begin"
                       /\ main_calls' = main_calls + 1
                       /\ invoked' = <<>>
                       /\ UNCHANGED <<iteration, on_output, result, outcome>>
    /\ UNCHANGED chatVars
    /\ UNCHANGED sessVars
    /\ UNCHANGED auxVars
    /\ UNCHANGED compact_resp

\* json.loads of the arguments and on_output before the execution
ToolBegin ==
    /\ pc = "tool_begin"
    /\ LET args == parse_args(pending[tc_i].arguments) IN
       IF on_output
       THEN IF summarize_args_raises(args)
            THEN RunRaises("TypeError")
            ELSE \/ /\ pc' = "tool_exec"
                    /\ UNCHANGED <<iteration, on_output, pending, tc_i, result,
                                   main_calls, invoked, outcome>>
                 \/ RunRaises("on_output")
       ELSE /\ pc' = "tool_exec"
            /\ UNCHANGED <<iteration, on_output, pending, tc_i, result,
                           main_calls, invoked, outcome>>
    /\ UNCHANGED ctxVars
    /\ UNCHANGED chatVars
    /\ UNCHANGED sessVars
    /\ UNCHANGED auxVars
    /\ UNCHANGED compact_resp

\* mutant: a tool function that raised is invoked a second time
ToolExec_retries ==
    /\ pc = "tool_exec"
    /\ \E beh \in ToolBehaviours(pending[tc_i].name) :
          LET tc == pending[tc_i]
              r == execute_tool(tc.name, parse_args(tc.arguments), beh) IN
          /\ result' = with_hint(r.text)
          /\ invoked' = IF r.invoked
                        THEN (IF beh.raises THEN invoked \o <<tc.id, tc.id>>
                              ELSE Append(invoked, tc.id))
                        ELSE invoked
    /\ pc' = "tool_end"
    /\ UNCHANGED <<iteration, on_output, pending, tc_i, main_calls, outcome>>
    /\ UNCHANGED ctxVars
    /\ UNCHANGED chatVars
    /\ UNCHANGED sessVars
    /\ UNCHANGED auxVars
    /\ UNCHANGED compact_resp

\* _execute_tool and the hint
ToolExec ==
    /\ pc = "tool_exec"
    /\ \E beh \in ToolBehaviours(pending[tc_i].name) :
          LET tc == pending[tc_i]
              r == execute_tool(tc.name, parse_args(tc.arguments), beh) IN
          /\ result' = with_hint(r.text)
          /\ invoked' = IF r.invoked THEN Append(invoked, tc.id) ELSE invoked
    /\ pc' = "tool_end"
    /\ UNCHANGED <<iteration, on_output, pending, tc_i, main_calls, outcome>>
    /\ UNCHANGED ctxVars
    /\ UNCHANGED chatVars
    /\ UNCHANGED sessVars
    /\ UNCHANGED auxVars
    /\ UNCHANGED compact_resp

\* mutant: the next call starts before the tool message of this one is appended
ToolEnd_skips_message ==
    /\ pc = "tool_end"
    /\ \/ /\ result' = <<>>
          /\ IF tc_i < Len(pending)
             THEN /\ tc_i' = tc_i + 1
                  /\ pc' = "tool_begin"
                  /\ UNCHANGED history
             ELSE /\ tc_i' = 0
                  /\ pc' = "loop"
                  /\ history' = Append(history, ToolMsg(pending[tc_i].id, result))
          /\ UNCHANGED <<iteration, on_output, pending, main_calls, invoked, outcome>>
       \/ /\ on_output
          /\ RunRaises("on_output")
          /\ UNCHANGED history
    /\ UNCHANGED <<compaction_summary, compaction_count, total_tokens_used>>
    /\ UNCHANGED chatVars
    /\ UNCHANGED sessVars
    /\ UNCHANGED auxVars
    /\ UNCHANGED compact_resp

\* on_output after the execution, then the tool message is appended
ToolEnd ==
    /\ pc = "tool_end"
    /\ \/ /\ history' = Append(history, ToolMsg(pending[tc_i].id, result))
          /\ result' = <<>>
          /\ IF tc_i < Len(pending)
             THEN /\ tc_i' = tc_i + 1
                  /\ pc' = "tool_begin"
             ELSE /\ tc_i' = 0
                  /\ pc' = "loop"
          /\ UNCHANGED <<iteration, on_output, pending, main_calls, invoked, outcome>>
       \/ /\ on_output
          /\ RunRaises("on_output")
          /\ UNCHANGED history
    /\ UNCHANGED <<compaction_summary, compaction_count, total_tokens_used>>
    /\ UNCHANGED chatVars
    /\ UNCHANGED sessVars
    /\ UNCHANGED auxVars
    /\ UNCHANGED compact_resp

\* ctx.compact called by a connector (/compact)
Compact ==
    /\ pc = "idle"
    /\ compaction_count < MaxCompactions
    /\ \E r \in CompactResponses :
          LET c == compact(Ctx(history, compaction_summary, compaction_count,
                               total_tokens_used), r) IN
          /\ history' = c.ctx.history
          /\ compaction_summary' = c.ctx.summary
          /\ compaction_count' = c.ctx.count
          /\ total_tokens_used' = c.ctx.total
          /\ compact_resp' = IF c.called THEN Some(r) ELSE compact_resp
          /\ outcome' = IF c.raised THEN Raised("compact", "compaction")
                        ELSE Returned("compact", <<>>)
    /\ UNCHANGED <<pc, iteration, on_output, pending, tc_i, result, main_calls, invoked>>
    /\ UNCHANGED chatVars
    /\ UNCHANGED sessVars
    /\ UNCHANGED auxVars

\* mutant: reset leaves the cumulative token total
Reset_keeps_total ==
    /\ pc = "idle"
    /\ history' = <<>>
    /\ compaction_summary' = None
    /\ compaction_count' = 0
    /\ UNCHANGED total_tokens_used
    /\ outcome' = Returned("reset", <<>>)
    /\ UNCHANGED <<pc, iteration, on_output, pending, tc_i, result, main_calls, invoked>>
    /\ UNCHANGED chatVars
    /\ UNCHANGED sessVars
    /\ UNCHANGED auxVars
    /\ compact_resp' = None

\* Agent.reset / ContextManager.reset
Reset ==
    /\ pc = "idle"
    /\ history' = <<>>
    /\ compaction_summary' = None
    /\ compaction_count' = 0
    /\ total_tokens_used' = 0
    /\ outcome' = Returned("reset", <<>>)
    /\ UNCHANGED <<pc, iteration, on_output, pending, tc_i, result, main_calls, invoked>>
    /\ UNCHANGED chatVars
    /\ UNCHANGED sessVars
    /\ UNCHANGED auxVars
    /\ compact_resp' = None

Next ==
    \/ \E t \in UserTexts, cb \in BOOLEAN : StartRun(t, cb)
    \/ LoopStep
    \/ CompactNotice
    \/ CompactInRun
    \/ ChatMain
    \/ ToolBegin
    \/ ToolExec
    \/ ToolEnd
    \/ Compact
    \/ Reset

Spec == Init /\ [][Next]_vars

(***************************************************************************)
(* LLMClient.chat: the retry loop.                                         *)
(***************************************************************************)
\* mutant: the last delay of the schedule repeats the second
RETRY_DELAYS_repeated == <<1, 3, 3>>

\* mutant: a schedule of four delays
RETRY_DELAYS_longer == <<1, 3, 8, 8>>

RETRY_DELAYS == <<1, 3, 8>>

\* retry-after header of a 429 response: absent, a number of seconds, or a
\* value float() does not accept (an HTTP date)
RetryAfterHeaders ==
    {None, Some([numeric |-> TRUE, seconds |-> 2]), Some([numeric |-> FALSE, seconds |-> 0])}

\* what one self._client.post gives: a 2xx response with a body, a 429
\* response, another status (raise_for_status raises HTTPStatusError), or a
\* transport error
ServerResponses ==
    {[kind |-> "ok", body |-> b, retry_after |-> None] : b \in {"body1", "body2"}}
    \cup {[kind |-> "429", body |-> "", retry_after |-> h] : h \in RetryAfterHeaders}
    \cup {[kind |-> k, body |-> "", retry_after |-> None] : k \in {"status", "transport"}}

\* _parse_response(resp.json())
parse_response(body) == [parsed |-> body]

\* the error of the n-th request of the call
RequestError(kind, n) ==
    [type |-> IF kind = "status" THEN "HTTPStatusError" ELSE "TransportError", request |-> n]

\* chat is called
ChatStart ==
    /\ chat_pc \in {"idle", "returned", "raised", "error"}
    /\ chat_pc' = "loop"
    /\ attempt' = 1
    /\ requests' = <<>>
    /\ sleeps' = <<>>
    /\ last_err' = None
    /\ chat_ret' = None
    /\ UNCHANGED ctxVars
    /\ UNCHANGED runVars
    /\ UNCHANGED sessVars
    /\ UNCHANGED auxVars

\* one pass of "for delay in _RETRY_DELAYS": the request and what follows it
chat_attempt(resp) ==
    LET delay == RETRY_DELAYS[attempt] IN
    /\ requests' = Append(requests, resp)
    /\ CASE resp.kind = "429" ->
              IF resp.retry_after # None /\ ~resp.retry_after[1].numeric
              THEN \* float() raises ValueError, which chat does not catch
                   /\ chat_pc' = "error"
                   /\ UNCHANGED <<attempt, sleeps, last_err, chat_ret>>
              ELSE /\ sleeps' = Append(sleeps, IF resp.retry_after # None
                                               THEN resp.retry_after[1].seconds
                                               ELSE delay)
                   /\ attempt' = attempt + 1
                   /\ UNCHANGED <<chat_pc, last_err, chat_ret>>
         [] resp.kind = "ok" ->
              /\ chat_pc' = "returned"
              /\ chat_ret' = Some(parse_response(resp.body))
              /\ UNCHANGED <<attempt, sleeps, last_err>>
         [] OTHER ->
              /\ last_err' = Some(RequestError(resp.kind, Len(requests) + 1))
              /\ sleeps' = Append(sleeps, delay)
              /\ attempt' = attempt + 1
              /\ UNCHANGED <<chat_pc, chat_ret>>

ChatAttempt ==
    /\ chat_pc = "loop"
    /\ attempt <= Len(RETRY_DELAYS)
    /\ \E resp \in ServerResponses : chat_attempt(resp)
    /\ UNCHANGED ctxVars
    /\ UNCHANGED runVars
    /\ UNCHANGED sessVars
    /\ UNCHANGED auxVars

\* the schedule is exhausted: RuntimeError wrapping last_err
ChatExhausted ==
    /\ chat_pc = "loop"
    /\ attempt > Len(RETRY_DELAYS)
    /\ chat_pc' = "raised"
    /\ UNCHANGED <<attempt, requests, sleeps, last_err, chat_ret>>
    /\ UNCHANGED ctxVars
    /\ UNCHANGED runVars
    /\ UNCHANGED sessVars
    /\ UNCHANGED auxVars

NextChat == ChatStart \/ ChatAttempt \/ ChatExhausted

SpecChat == Init /\ [][NextChat]_vars

\* chat with its scheduling: a call that is in its loop goes on (the request
\* returns or fails, the sleep ends)
SpecChatFair == SpecChat /\ WF_vars(ChatAttempt) /\ WF_vars(ChatExhausted)

(***************************************************************************)
(* The specifications of the sessions and of the checkpoints.              *)
(***************************************************************************)
\* one context manager and the checkpoints of two session ids
NextCheckpoint ==
    \/ GetAgent(1)
    \/ \E m \in SessionMessages : AddMessageOf(1, m)
    \/ \E r \in SessionCompactResponses : CompactOf(1, r)
    \/ ResetOf(1)
    \/ \E s \in SessionIds : SaveCheckpoint(1, s)
    \/ \E s \in SessionIds : LoadCheckpoint(1, s)

SpecCheckpoint == Init /\ [][NextCheckpoint]_vars

\* the agents of two users and the checkpoint of one session id
NextSessions ==
    \E u \in Users :
        \/ GetAgent(u)
        \/ \E m \in SessionMessages : AddMessageOf(u, m)
        \/ \E r \in SessionCompactResponses : CompactOf(u, r)
        \/ ResetOf(u)
        \/ SaveCheckpoint(u, "s1")
        \/ LoadCheckpoint(u, "s1")

SpecSessions == Init /\ [][NextSessions]_vars

(***************************************************************************)
(* Tool dispatch with the arguments of the call: _execute_tool and         *)
(* bash_exec.  A command and a blocklist pattern are texts; args is the    *)
(* dict of the call, each key present (Some) or omitted (None).            *)
(***************************************************************************)
\* str.lower() on an atom
LowerAtom(a) ==
    CASE a = "REBOOT" -> "reboot"
      [] a = "Sudo " -> "sudo "
      [] OTHER -> a

lower(t) == [i \in 1..Len(t) |-> LowerAtom(t[i])]

\* pat in text
Contains(text, pat) ==
    \E i \in 0..(Len(text) - Len(pat)) : SubSeq(text, i + 1, i + Len(pat)) = pat

\* _BLOCKED of tools/bash.py and Config.blocked_commands: the patterns the
\* modelled commands can meet; the lists differ in their dd pattern
BLOCKED == << <<"rm -rf /">>, <<"dd if=", "/dev">>, <<"reboot">> >>
blocked_commands == << <<"rm -rf /">>, <<"dd if=">>, <<"reboot">> >>

\* Config.working_directory and Config.command_timeout
working_directory == "."
command_timeout == 30

\* _is_blocked: some pattern, lowercased, occurs in the lowercased command
\* (strip removes outer blanks only and changes no occurrence)
is_blocked(command, blocklist) ==
    \E k \in 1..Len(blocklist) : Contains(lower(command), lower(blocklist[k]))

\* a value of the blocked_commands key: a JSON list of patterns, or null
ListVal(l) == [is_null |-> FALSE, patterns |-> l]
NullVal == [is_null |-> TRUE, patterns |-> <<>>]

\* the operand of "blocked_commands or _BLOCKED" counts as true
Truthy(v) == ~v.is_null /\ v.patterns # <<>>

DispatchNames == {"bash", "read_file", "no_such_tool"}

DispatchCommands ==
    { <<"ls">>, <<"Sudo ", "REBOOT">>, <<"sudo ", "reboot">>, <<"rm -rf /">>,
      <<"dd if=", "/home/x">>, <<"dd if=", "/dev", "/zero">> }

\* the args a model can send: any of the four keys present or omitted
DispatchArgs ==
    [command : {None} \cup {Some(c) : c \in DispatchCommands},
     working_directory : {None, Some("/tmp")},
     timeout : {None, Some(5)},
     blocked_commands : {None, Some(NullVal), Some(ListVal(<<>>)),
                         Some(ListVal(<< <<"zzz">> >>))}]

\* mutant: dict.setdefault replaced by an assignment
setdefault_overrides(args, key, default) == [args EXCEPT ![key] = Some(default)]

\* dict.setdefault: the key is set only when the dict does not hold it
setdefault(args, key, default) ==
    IF args[key] = None THEN [args EXCEPT ![key] = Some(default)] ELSE args

\* what the subprocess does once started: it exits and closes its pipes
\* within the timeout, it is still running at the timeout, or the shell has
\* exited but a background child holds its pipes open until the timeout
BashOutcomes == {"done", "timeout", "timeout_pipes_open"}

\* str(n) of a non-negative integer, as a text of digit atoms
DigitAtom(d) ==
    CASE d = 0 -> "0" [] d = 1 -> "1" [] d = 2 -> "2" [] d = 3 -> "3"
      [] d = 4 -> "4" [] d = 5 -> "5" [] d = 6 -> "6" [] d = 7 -> "7"
      [] d = 8 -> "8" [] d = 9 -> "9"
RECURSIVE IntText(_)
IntText(n) == IF n < 10 THEN <<DigitAtom(n)>>
              ELSE IntText(n \div 10) \o <<DigitAtom(n % 10)>>

\* the subprocess of create_subprocess_shell: its command, the timeout
\* wait_for was given, whether proc.kill() was called, and its state
Process(command, timeout, kill_called, state) ==
    [command |-> command, timeout |-> timeout, kill_called |-> kill_called,
     state |-> state]

\* proc.kill(): SIGKILL ends a running process; on a process that has
\* already exited it does nothing
kill(p) == [p EXCEPT !.kill_called = TRUE,
                     !.state = IF p.state = "running" THEN "killed" ELSE p.state]

\* mutant: the timeout branch returns without proc.kill()
bash_exec_leaves_running(kwargs, beh) ==
    LET command == kwargs.command[1]
        timeout == kwargs.timeout[1]
        blocklist == IF Truthy(kwargs.blocked_commands[1])
                     THEN kwargs.blocked_commands[1].patterns
                     ELSE BLOCKED IN
    IF is_blocked(command, blocklist)
    THEN [text |-> <<"B BLOCKED: '">> \o command \o <<"' matches safety blocklist.">>,
          spawned |-> None, proc |-> None]
    ELSE IF beh = "done"
    THEN [text |-> <<"ok (no output)">>, spawned |-> Some(command),
          proc |-> Some(Process(command, timeout, FALSE, "exited"))]
    ELSE [text |-> <<"T TIMEOUT after ">> \o IntText(timeout) \o <<"s: '">>
                   \o command \o <<"'">>,
          spawned |-> Some(command),
          proc |-> Some(Process(command, timeout, FALSE,
                                IF beh = "timeout" THEN "running" ELSE "exited"))]

\* bash_exec(**kwargs): the text returned, the command started, if any, and
\* the subprocess when the call returns
bash_exec(kwargs, beh) ==
    LET command == kwargs.command[1]
        timeout == kwargs.timeout[1]
        blocklist == IF Truthy(kwargs.blocked_commands[1])
                     THEN kwargs.blocked_commands[1].patterns
                     ELSE BLOCKED IN
    IF is_blocked(command, blocklist)
    THEN [text |-> <<"B BLOCKED: '">> \o command \o <<"' matches safety blocklist.">>,
          spawned |-> None, proc |-> None]
    ELSE IF beh = "done"
    THEN [text |-> <<"ok (no output)">>, spawned |-> Some(command),
          proc |-> Some(Process(command, timeout, FALSE, "exited"))]
    ELSE [text |-> <<"T TIMEOUT after ">> \o IntText(timeout) \o <<"s: '">>
                   \o command \o <<"'">>,
          spawned |-> Some(command),
          proc |-> Some(kill(Process(command, timeout, FALSE,
                                     IF beh = "timeout" THEN "running"
                                                        ELSE "exited")))]

\* _execute_tool with the args of the call: the text returned, the keyword
\* arguments tool_def.fn was called with, and the command started
dispatch(name, args, beh) ==
    IF ~get_tool(name)
    THEN [text |-> <<"X Unknown tool: ", name>>, kwargs |-> None, spawned |-> None,
          proc |-> None]
    ELSE IF name = "bash"
    THEN LET a == setdefault(
                      setdefault(
                          setdefault(args, "working_directory", working_directory),
                          "timeout", command_timeout),
                      "blocked_commands", ListVal(blocked_commands)) IN
         IF a.command = None
         THEN [text |-> <<"X Tool error: ", "TypeError">>, kwargs |-> Some(a),
               spawned |-> None, proc |-> None]
         ELSE LET r == bash_exec(a, beh) IN
              [text |-> r.text, kwargs |-> Some(a), spawned |-> r.spawned,
               proc |-> r.proc]
    ELSE [text |-> <<"[file - 1 lines]">>, kwargs |-> Some(args), spawned |-> None,
          proc |-> None]

\* one call of _execute_tool
ExecuteToolCall ==
    /\ \E name \in DispatchNames, args \in DispatchArgs, beh \in BashOutcomes :
          LET d == dispatch(name, args, beh) IN
          /\ tool_call' = Some([name |-> name, args |-> args])
          /\ fn_kwargs' = d.kwargs
          /\ subprocess_cmd' = d.spawned
          /\ tool_text' = d.text
          /\ proc' = d.proc
    /\ UNCHANGED <<ctxVars, runVars, chatVars, sessVars>>
    /\ UNCHANGED <<streamVars, profVars, estVars, fileVars>>

NextDispatch == ExecuteToolCall

SpecDispatch == Init /\ [][NextDispatch]_vars

(***************************************************************************)
(* LLMClient.chat_stream: the lines of the response, one at a time.        *)
(* A line is described by what the code asks of it: whether it starts with *)
(* "data: ", whether the rest is "[DONE]", whether json.loads accepts the  *)
(* rest, whether the value is an object, and its "choices" (the content of *)
(* the delta of each choice; None when the key is absent).                 *)
(***************************************************************************)
MaxLines == 3

StreamLineOf(prefix, done, json, is_object, choices) ==
    [prefix |-> prefix, done |-> done, json |-> json, is_object |-> is_object,
     choices |-> choices]

CommentLine == StreamLineOf(FALSE, FALSE, FALSE, FALSE, None)
DoneLine == StreamLineOf(TRUE, TRUE, FALSE, FALSE, None)
DeltaLine(text) == StreamLineOf(TRUE, FALSE, TRUE, TRUE, Some(<<text>>))
NoChoicesLine == StreamLineOf(TRUE, FALSE, TRUE, TRUE, None)
EmptyChoicesLine == StreamLineOf(TRUE, FALSE, TRUE, TRUE, Some(<<>>))
NonJsonLine == StreamLineOf(TRUE, FALSE, FALSE, FALSE, None)
JsonNullLine == StreamLineOf(TRUE, FALSE, TRUE, FALSE, None)

StreamLineKinds ==
    {CommentLine, DoneLine, DeltaLine("Hel"), DeltaLine("lo"), DeltaLine(""),
     NoChoicesLine, EmptyChoicesLine, NonJsonLine, JsonNullLine}

StreamInputs == UNION {[1..n -> StreamLineKinds] : n \in 0..MaxLines}

\* the body of "async for line in resp.aiter_lines()" for one line
stream_line(line) ==
    IF ~line.prefix THEN [op |-> "skip", text |-> ""]
    ELSE IF line.done THEN [op |-> "break", text |-> ""]
    ELSE IF ~line.json THEN [op |-> "skip", text |-> ""]      \* JSONDecodeError
    ELSE IF ~line.is_object THEN [op |-> "raise", text |-> ""] \* AttributeError
    ELSE LET choices == IF line.choices = None THEN <<"">> ELSE line.choices[1] IN
         IF choices = <<>> THEN [op |-> "raise", text |-> ""]  \* IndexError
         ELSE IF choices[1] # "" THEN [op |-> "yield", text |-> choices[1]]
         ELSE [op |-> "skip", text |-> ""]

\* chat_stream is called: the request, raise_for_status, then the lines
StreamStart ==
    /\ stream_pc # "reading"
    /\ \/ /\ stream_pc' = "http_error"
          /\ stream_lines' = <<>>
       \/ /\ stream_pc' = "reading"
          /\ \E lines \in StreamInputs : stream_lines' = lines
    /\ stream_read' = <<>>
    /\ yielded' = <<>>
    /\ UNCHANGED <<ctxVars, runVars, chatVars, sessVars>>
    /\ UNCHANGED <<dispVars, profVars, estVars, fileVars>>

\* the next line is read and handled
StreamLine ==
    /\ stream_pc = "reading"
    /\ stream_lines # <<>>
    /\ LET r == stream_line(Head(stream_lines)) IN
       /\ stream_read' = Append(stream_read, Head(stream_lines))
       /\ stream_lines' = Tail(stream_lines)
       /\ yielded' = IF r.op = "yield" THEN Append(yielded, r.text) ELSE yielded
       /\ stream_pc' = CASE r.op = "break" -> "done"
                         [] r.op = "raise" -> "raised"
                         [] OTHER -> "reading"
    /\ UNCHANGED <<ctxVars, runVars, chatVars, sessVars>>
    /\ UNCHANGED <<dispVars, profVars, estVars, fileVars>>

\* aiter_lines is exhausted
StreamEnd ==
    /\ stream_pc = "reading"
    /\ stream_lines = <<>>
    /\ stream_pc' = "done"
    /\ UNCHANGED <<stream_lines, stream_read, yielded>>
    /\ UNCHANGED <<ctxVars, runVars, chatVars, sessVars>>
    /\ UNCHANGED <<dispVars, profVars, estVars, fileVars>>

NextStream == StreamStart \/ StreamLine \/ StreamEnd

SpecStream == Init /\ [][NextStream]_vars

(***************************************************************************)
(* Clients and profiles.  LLMProfile is a mutable dataclass; _config.main  *)
(* and _config.compact are two objects, and an LLMClient keeps a reference *)
(* to the object it was constructed with (self.profile = profile).  A      *)
(* client is the name of its profile object and, for the properties, the   *)
(* values the object had when the client was constructed.                  *)
(***************************************************************************)
MaxClients == 7

ModelNames == {"m2"}

\* LLMClient(profile): the client object
LLMClient(prof, target) == [profile |-> target, built |-> prof[target]]

\* Config.compact_profile: fills api_key and api_base of the compact object
\* from main, in place, and returns that object
compact_profile(prof) ==
    LET p == prof["compact"]
        p1 == IF p.api_key = "" THEN [p EXCEPT !.api_key = prof["main"].api_key] ELSE p
        p2 == IF p1.api_base = DefaultApiBase /\ prof["main"].api_base # p1.api_base
              THEN [p1 EXCEPT !.api_base = prof["main"].api_base] ELSE p1 IN
    [prof EXCEPT !["compact"] = p2]

\* the profile a client reads when it builds a request
profile_of(c) == profiles[clients[c].profile]

AgentsWithClients == {u \in Users : agent_llm[u] # None}

\* _get_agent for a new user: Agent.__init__ constructs the two clients
GetAgentClients(u) ==
    /\ agent_llm[u] = None
    /\ Len(clients) + 2 <= MaxClients
    /\ LET prof == compact_profile(profiles)
           n == Len(clients) IN
       /\ profiles' = prof
       /\ clients' = clients \o <<LLMClient(profiles, "main"), LLMClient(prof, "compact")>>
       /\ used' = used \o <<{}, {}>>
       /\ agent_llm' = [agent_llm EXCEPT ![u] =
                            Some([main_llm |-> n + 1, compact_llm |-> n + 2])]
    /\ UNCHANGED <<ctxVars, runVars, chatVars, sessVars>>
    /\ UNCHANGED <<dispVars, streamVars, estVars, fileVars>>

\* /model: reads _config.compact_profile
CmdModel ==
    /\ profiles' = compact_profile(profiles)
    /\ UNCHANGED <<clients, agent_llm, used>>
    /\ UNCHANGED <<ctxVars, runVars, chatVars, sessVars>>
    /\ UNCHANGED <<dispVars, streamVars, estVars, fileVars>>

\* the agents in the order of _agents.values()
RECURSIVE AgentOrder(_)
AgentOrder(us) ==
    IF us = {} THEN <<>>
    ELSE LET u == CHOOSE x \in us : \A y \in us : x <= y IN
         <<u>> \o AgentOrder(us \ {u})

\* mutant: the model of the profile is assigned and no client is replaced
replace_clients_none(field, target, prof, cl, al, order) == [clients |-> cl, agent_llm |-> al]

\* "for agent in _agents.values(): agent.<field> = LLMClient(profile)"
RECURSIVE replace_clients(_, _, _, _, _, _)
replace_clients(field, target, prof, cl, al, order) ==
    IF order = <<>> THEN [clients |-> cl, agent_llm |-> al]
    ELSE LET u == Head(order) IN
         replace_clients(field, target, prof,
                         Append(cl, LLMClient(prof, target)),
                         [al EXCEPT ![u] = Some([al[u][1] EXCEPT ![field] = Len(cl) + 1])],
                         Tail(order))

\* /setmodel: the model of the profile object is assigned in place, then
\* every agent gets a new client for that profile; there is no await
\* between the assignment and the end of the loop
SetModel(target, new_model) ==
    /\ Len(clients) + Cardinality(AgentsWithClients) <= MaxClients
    /\ LET assigned == [profiles EXCEPT ![target].model = new_model]
           prof == IF target = "compact" /\ AgentsWithClients # {}
                   THEN compact_profile(assigned) ELSE assigned
           r == replace_clients(IF target = "compact" THEN "compact_llm" ELSE "main_llm",
                                target, prof, clients, agent_llm,
                                AgentOrder(AgentsWithClients)) IN
       /\ profiles' = prof
       /\ clients' = r.clients
       /\ agent_llm' = r.agent_llm
       /\ used' = used \o [i \in 1..(Len(r.clients) - Len(clients)) |-> {}]
    /\ UNCHANGED <<ctxVars, runVars, chatVars, sessVars>>
    /\ UNCHANGED <<dispVars, streamVars, estVars, fileVars>>

\* a client of an agent builds and sends a request (chat): url, headers and
\* body are read from self.profile
ClientChat(u, which) ==
    /\ agent_llm[u] # None
    /\ LET c == agent_llm[u][1][which] IN
       used' = [used EXCEPT ![c] = @ \cup {profile_of(c)}]
    /\ UNCHANGED <<profiles, clients, agent_llm>>
    /\ UNCHANGED <<ctxVars, runVars, chatVars, sessVars>>
    /\ UNCHANGED <<dispVars, streamVars, estVars, fileVars>>

NextProfiles ==
    \/ \E u \in Users : GetAgentClients(u)
    \/ CmdModel
    \/ \E target \in {"main", "compact"}, m \in ModelNames : SetModel(target, m)
    \/ \E u \in Users, which \in {"main_llm", "compact_llm"} : ClientChat(u, which)

SpecProfiles == Init /\ [][NextProfiles]_vars

(***************************************************************************)
(* The token estimate on texts and on message lists.                       *)
(***************************************************************************)
MaxTextLen == 15
MaxEstMessages == 3

\* a text of n characters
TextOfLen(n) == [i \in 1..n |-> "x"]

\* the messages appended to the estimated list: with and without text, with
\* and without tool calls
EstMessages ==
    { Msg("user", <<>>), ToolMsg(1, <<"LongText">>),
      AssistantMsg(<<>>, <<ToolCall(1, "bash", ObjectPayload)>>) }

\* estimate_tokens is applied to a text; est_texts holds the text of the
\* call before (a) and the text of this call (b)
EstimateTexts ==
    /\ \E n \in 0..MaxTextLen :
          est_texts' = [a |-> est_texts.b, b |-> TextOfLen(n),
                        tokens_a |-> est_texts.tokens_b,
                        tokens_b |-> estimate_tokens(TextOfLen(n))]
    /\ UNCHANGED est_list
    /\ UNCHANGED <<ctxVars, runVars, chatVars, sessVars>>
    /\ UNCHANGED <<dispVars, streamVars, profVars, fileVars>>

\* a message is appended to a list and estimate_messages_tokens is applied
\* to the list before and after
EstimateAppend ==
    /\ Len(est_list.messages) < MaxEstMessages
    /\ \E m \in EstMessages :
          est_list' = [messages |-> Append(est_list.messages, m),
                       before |-> estimate_messages_tokens(est_list.messages),
                       after |-> estimate_messages_tokens(
                                     Append(est_list.messages, m))]
    /\ UNCHANGED est_texts
    /\ UNCHANGED <<ctxVars, runVars, chatVars, sessVars>>
    /\ UNCHANGED <<dispVars, streamVars, profVars, fileVars>>

NextEstimate ==
    \/ EstimateTexts
    \/ EstimateAppend

SpecEstimate == Init /\ [][NextEstimate]_vars

(***************************************************************************)
(* tools/files.py: write_file and patch_file on one path.                  *)
(***************************************************************************)
MaxFileLen == 3

\* the characters of the modelled files
FileChars == {"a", "b"}

RECURSIVE TextsUpTo(_)
TextsUpTo(n) ==
    IF n = 0 THEN {<<>>}
    ELSE LET shorter == TextsUpTo(n - 1) IN
         shorter \cup {Append(t, c) : t \in {u \in shorter : Len(u) = n - 1},
                                       c \in FileChars}

FileContents == TextsUpTo(MaxFileLen)
SearchTexts == {<<"a">>, <<"a", "b">>, <<"b", "b">>}
ReplaceTexts == {<<>>, <<"b">>, <<"a", "a">>}

\* text.startswith(sub)
StartsWith(text, sub) ==
    Len(sub) <= Len(text) /\ SubSeq(text, 1, Len(sub)) = sub

\* str.count: the occurrences of sub in text that do not overlap, counted
\* from the left
RECURSIVE str_count(_, _)
str_count(text, sub) ==
    IF sub = <<>> THEN Len(text) + 1
    ELSE IF text = <<>> THEN 0
    ELSE IF StartsWith(text, sub)
    THEN 1 + str_count(SubSeq(text, Len(sub) + 1, Len(text)), sub)
    ELSE str_count(Tail(text), sub)

\* str.replace: every such occurrence of old replaced by new
RECURSIVE str_replace(_, _, _)
str_replace(text, old, new) ==
    IF text = <<>> THEN (IF old = <<>> THEN new ELSE <<>>)
    ELSE IF old = <<>> THEN new \o <<Head(text)>> \o str_replace(Tail(text), old, new)
    ELSE IF StartsWith(text, old)
    THEN new \o str_replace(SubSeq(text, Len(old) + 1, Len(text)), old, new)
    ELSE <<Head(text)>> \o str_replace(Tail(text), old, new)

FileCall(tool, search, replace, before) ==
    [tool |-> tool, search |-> search, replace |-> replace, before |-> before]

\* patch_file(path, search, replace) on the file text (optional): the text
\* of the file after the call and the text returned
patch_file(text, search, replace) ==
    IF text = None
    THEN [file |-> text, ret |-> <<"X File not found: ", "path">>]
    ELSE LET count == str_count(text[1], search) IN
         IF count = 0
         THEN [file |-> text,
               ret |-> <<"X Search string not found in ", "name",
                         ". Check exact whitespace/content.">>]
         ELSE IF count > 1
         THEN [file |-> text,
               ret |-> <<"W Found ">> \o IntText(count)
                       \o <<" occurrences. Replacing all.">>]
         ELSE [file |-> Some(str_replace(text[1], search, replace)),
               ret |-> <<"ok Patched ", "name", " (">> \o IntText(count)
                       \o <<" replacement">>
                       \o (IF count > 1 THEN <<"s">> ELSE <<>>) \o <<")">>]

\* write_file(path, content)
WriteFile ==
    /\ \E content \in FileContents :
          /\ file_text' = Some(content)
          /\ file_call' = Some(FileCall("write_file", <<>>, <<>>, file_text))
          /\ file_ret' = <<"ok Written ">> \o IntText(Len(content))
                          \o <<" chars to ", "name">>
    /\ UNCHANGED <<ctxVars, runVars, chatVars, sessVars>>
    /\ UNCHANGED <<dispVars, streamVars, profVars, estVars>>

\* one call of patch_file
PatchFile ==
    /\ \E search \in SearchTexts, replace \in ReplaceTexts :
          LET r == patch_file(file_text, search, replace) IN
          /\ file_text' = r.file
          /\ file_call' = Some(FileCall("patch_file", search, replace, file_text))
          /\ file_ret' = r.ret
    /\ UNCHANGED <<ctxVars, runVars, chatVars, sessVars>>
    /\ UNCHANGED <<dispVars, streamVars, profVars, estVars>>

NextFiles ==
    \/ WriteFile
    \/ PatchFile

SpecFiles == Init /\ [][NextFiles]_vars

(***************************************************************************)
(* Properties.                                                             *)
(***************************************************************************)
\* a step of compact: inside run, or called by a connector
CompactStep == pc = "compact" \/ (pc = "idle" /\ outcome'.op = "compact")

\* a step of compact on a non-empty history whose summarization call succeeded
CompactSucceeds ==
    CompactStep /\ history # <<>> /\ compact_resp' # None /\ ~compact_resp'[1].failed

\* a step of compact on a non-empty history whose summarization call failed
CompactFails ==
    CompactStep /\ history # <<>> /\ compact_resp' # None /\ compact_resp'[1].failed

\* C1: a run calls main_llm.chat at most max_tool_iterations times (no call
\* is pending once that many were made), and when the cap is reached the run
\* ends by returning.
C1_BoundedRoundTrips ==
    /\ [](/\ main_calls <= max_tool_iterations
          /\ iteration <= max_tool_iterations
          /\ (pc \in {"notice", "compact", "chat"} => main_calls < max_tool_iterations))
    /\ [][pc = "loop" /\ main_calls >= max_tool_iterations
             => pc' = "idle" /\ outcome'.kind = "returned"]_vars

C1_Witness == pc = "loop" /\ main_calls = max_tool_iterations

\* every assistant message with N tool_calls is followed by exactly N tool
\* messages, in the order of the calls and with their ids
Paired(msgs) ==
    \A i \in 1..Len(msgs) :
        (msgs[i].role = "assistant" /\ msgs[i].tool_calls # <<>>) =>
            LET n == Len(msgs[i].tool_calls) IN
            /\ i + n <= Len(msgs)
            /\ \A j \in 1..n : /\ msgs[i + j].role = "tool"
                               /\ msgs[i + j].tool_call_id = msgs[i].tool_calls[j].id
            /\ (i + n < Len(msgs) => msgs[i + n + 1].role # "tool")

\* C2: in the message list of every call of main_llm.chat, each assistant
\* message with N tool_calls is followed by exactly its N tool messages.
C2_PairedAtModelCall ==
    pc = "chat" => Paired(get_messages(history, compaction_summary))

\* C3: when the summarization call fails, compact raises (the run does not
\* go on to the model call) and history, summary, compaction counter and
\* token total are what they were before.
C3_FailedCompactionKeepsState ==
    [][CompactFails =>
          /\ UNCHANGED ctxVars
          /\ pc' = "idle"
          /\ outcome'.kind = "raised"
          /\ outcome'.err = "compaction"]_vars

C3_Witness ==
    /\ outcome.err = "compaction"
    /\ Len(history) > 6

C5_SummaryFromResponse ==
    [][CompactSucceeds =>
          LET r == compact_resp'[1] IN
          /\ compaction_count' = compaction_count + 1
          /\ r.content # None
          /\ compaction_summary' = Some(r.content[1])
          /\ compaction_summary'[1] # <<>>
          /\ total_tokens_used' = total_tokens_used
                                    + (IF r.usage # None THEN r.usage[1] ELSE 0)]_vars

\* C5 amended: the summary is the text of the response, or the fixed text
\* "No summary generated." when the response has no text; it is never empty.
C5_SummaryOrPlaceholder ==
    [][CompactSucceeds =>
          LET r == compact_resp'[1] IN
          /\ compaction_count' = compaction_count + 1
          /\ compaction_summary' =
                IF r.content # None /\ r.content[1] # <<>>
                THEN Some(r.content[1])
                ELSE Some(<<"No summary generated.">>)
          /\ compaction_summary'[1] # <<>>
          /\ total_tokens_used' = total_tokens_used
                                    + (IF r.usage # None THEN r.usage[1] ELSE 0)]_vars

C5_Witness ==
    /\ compaction_count = 1
    /\ compaction_summary = Some(<<"No summary generated.">>)
    /\ total_tokens_used = 7

\* the requests of the current chat call that failed with a transport error
\* or an error status
FailedRequests == {i \in 1..Len(requests) : requests[i].kind \in {"status", "transport"}}

\* C6: rate-limited responses do not consume attempts: chat raises its
\* terminal failure only after 3 requests failed with a transport or server
\* error.
C6_RateLimitKeepsAttempts ==
    chat_pc = "raised" => Cardinality(FailedRequests) = 3

\* C7: when every request fails with a transport error or an error status,
\* chat raises after exactly 3 requests and the waits 1, 3, 8; the first
\* successful request ends the call, which returns its parsed response.
C7_FixedSchedule ==
    /\ (chat_pc = "raised" /\ Cardinality(FailedRequests) = Len(requests))
          => (Len(requests) = 3 /\ sleeps = <<1, 3, 8>>)
    /\ (chat_pc = "loop" /\ Cardinality(FailedRequests) = Len(requests))
          => (/\ Len(requests) <= 3
              /\ \A i \in 1..Len(sleeps) : sleeps[i] = <<1, 3, 8>>[i]
              /\ Len(sleeps) = Len(requests))
    /\ \A i \in 1..Len(requests) :
          requests[i].kind = "ok" =>
              /\ i = Len(requests)
              /\ chat_pc = "returned"
              /\ chat_ret = Some(parse_response(requests[i].body))
    /\ chat_pc = "returned" => (requests # <<>> /\ requests[Len(requests)].kind = "ok")

C7_Witness ==
    /\ chat_pc = "raised"
    /\ Len(requests) = 3
    /\ Cardinality(FailedRequests) = 3

\* C8: no error that comes from a tool call (its name, its arguments or its
\* tool function) is raised to the caller of run.
C8_ToolErrorsStayInside ==
    ~(outcome.op = "run" /\ outcome.kind = "raised" /\ outcome.err = "TypeError")

\* the tool call being processed names no registered tool
UnknownCall == pc \in {"tool_exec", "tool_end"} /\ pending[tc_i].name \notin TOOLS

C10_CallbackFailureIgnored ==
    ~(outcome.op = "run" /\ outcome.kind = "raised" /\ outcome.err = "on_output")

\* the position in response.tool_calls of the call with this id
PosIn(tcs, id) == CHOOSE j \in 1..Len(tcs) : tcs[j].id = id

\* the last n + 1 messages of msgs are the assistant message carrying tcs and
\* the tool messages of its first n calls, in the order of the calls
CallsRecorded(msgs, tcs, n) ==
    LET base == Len(msgs) - n IN
    /\ base >= 1
    /\ msgs[base].role = "assistant"
    /\ msgs[base].tool_calls = tcs
    /\ \A j \in 1..n : /\ msgs[base + j].role = "tool"
                       /\ msgs[base + j].tool_call_id = tcs[j].id

\* C11: while call i of a response is being processed the tool messages of
\* calls 1..i-1, and only those, follow the assistant message, in call order;
\* the tool functions invoked so far belong to calls up to i, in call order;
\* when the last call is done all tool messages are there, in call order.
C11_SequentialInOrder ==
    /\ pc \in {"tool_begin", "tool_exec", "tool_end"} =>
          /\ tc_i \in 1..Len(pending)
          /\ CallsRecorded(history, pending, tc_i - 1)
          /\ \A k \in 1..Len(invoked) :
                /\ \E j \in 1..Len(pending) : pending[j].id = invoked[k]
                /\ PosIn(pending, invoked[k]) <= tc_i
                /\ pc \in {"tool_begin", "tool_exec"} => PosIn(pending, invoked[k]) < tc_i
                /\ \A l \in 1..Len(invoked) :
                      k < l => PosIn(pending, invoked[k]) < PosIn(pending, invoked[l])
    /\ (pc = "loop" /\ pending # <<>>) => CallsRecorded(history, pending, Len(pending))

C11_Witness ==
    /\ pc = "loop"
    /\ Len(pending) = 2
    /\ Len(invoked) = 2
    /\ history[Len(history)].tool_call_id = pending[2].id

\* C12: a run in which every response of the model requested tool calls
\* (no model call failed) ends by returning the iteration-limit notice after
\* max_tool_iterations round trips, the notice being the last message of the
\* history; it does not end by raising.
C12_AlwaysToolCallsReturnsNotice ==
    [][(pc \in {"loop", "tool_begin", "tool_end"} /\ pc' = "idle") =>
          /\ outcome' = Returned("run", <<"Max tool iterations reached. Stopping.">>)
          /\ main_calls = max_tool_iterations
          /\ history' # <<>>
          /\ history'[Len(history')] =
                Msg("assistant", <<"Max tool iterations reached. Stopping.">>)]_vars

\* C13: when the first response of a run has no tool calls and no compaction
\* took place, the run returns the text of that response after one round
\* trip, the history is the history before the run, the user message and the
\* assistant message with the returned text, and compaction_count is what it
\* was: run appends the user message, the first pass of the loop and the
\* model call leave the context alone, the answer is appended and returned.
C13_PlainAnswer ==
    /\ [][(pc = "idle" /\ pc' = "loop") =>
             /\ Len(history') = Len(history) + 1
             /\ SubSeq(history', 1, Len(history)) = history
             /\ history'[Len(history')].role = "user"
             /\ history'[Len(history')].content \in UserTexts
             /\ iteration' = 0
             /\ main_calls' = 0
             /\ compaction_count' = compaction_count]_vars
    /\ [][(pc = "loop" /\ iteration = 0 /\ pc' = "chat") =>
             (iteration' = 1 /\ UNCHANGED ctxVars)]_vars
    /\ [][(pc = "chat" /\ iteration = 1 /\ outcome'.kind = "returned") =>
             /\ main_calls = 0
             /\ pc' = "idle"
             /\ \E r \in MainResponses(1) :
                   /\ r.tool_calls = <<>>
                   /\ outcome'.text = (IF r.content = None THEN <<>> ELSE r.content[1])
             /\ history' = Append(history, Msg("assistant", outcome'.text))
             /\ compaction_count' = compaction_count]_vars

C13_Witness ==
    /\ pc = "idle"
    /\ outcome = Returned("run", <<"Hello">>)
    /\ compaction_count = 0
    /\ Len(history) = 2
    /\ history[1] = Msg("user", <<"Hi">>)
    /\ history[2] = Msg("assistant", <<"Hello">>)

\* C14: at every call of main_llm.chat the estimate of the assembled message
\* list is at most max_tokens.
C14_WithinBudget ==
    pc = "chat" =>
        estimate_messages_tokens(get_messages(history, compaction_summary)) <= max_tokens

\* token budgets and thresholds (in tenths) of other configurations
TokenBudgets == {131, 132}
ThresholdTenths == {5, ThresholdNum}

\* C15: whenever the loop evaluates needs_compaction, with any budget and
\* threshold, it is true exactly when the estimate of the list assembled by
\* get_messages is strictly greater than max_tokens * T.
C15_MeasuresAssembledList ==
    [][(pc = "loop" /\ iteration' = iteration + 1) =>
          LET est == estimate_messages_tokens(get_messages(history, compaction_summary)) IN
          /\ (pc' \in {"notice", "compact"}) <=> needs_compaction(history, compaction_summary)
          /\ needs_compaction(history, compaction_summary)
                <=> (est * ThresholdDen > max_tokens * ThresholdNum)
          /\ \A mt \in TokenBudgets, tenths \in ThresholdTenths :
                needs_compaction_with(mt, tenths, 10, history, compaction_summary)
                    <=> (est * 10 > mt * tenths)]_vars

\* the loop is about to compact a context whose raw history alone is below
\* the threshold
C15_Witness ==
    /\ pc = "compact"
    /\ needs_compaction(history, compaction_summary)
    /\ estimate_messages_tokens(history) * ThresholdDen <= max_tokens * ThresholdNum

\* C17: right after reset the history is empty, there is no summary, both
\* counters are 0 and get_messages gives the system prompt alone.
C17_ResetClearsEverything ==
    outcome.op = "reset" =>
        /\ history = <<>>
        /\ compaction_summary = None
        /\ compaction_count = 0
        /\ total_tokens_used = 0
        /\ get_messages(history, compaction_summary) = <<Msg("system", <<"SYSTEM_PROMPT">>)>>

C17_Witness ==
    /\ outcome = Returned("reset", <<>>)
    /\ pc = "idle"
    /\ history = <<>>
    /\ total_tokens_used = 0

\* C19: compact on an empty history makes no summarization call and leaves
\* history, summary, compaction counter and token total as they are.
C19_CompactOnEmptyIsNoOp ==
    [][(CompactStep /\ history = <<>>) =>
          /\ UNCHANGED ctxVars
          /\ UNCHANGED compact_resp
          /\ outcome' = Returned("compact", <<>>)]_vars

C19_Witness ==
    /\ outcome = Returned("compact", <<>>)
    /\ history = <<>>
    /\ compact_resp = None
    /\ compaction_count = 0

\* C20: the list given to the model is the system prompt, then one checkpoint
\* message wrapping the summary exactly when there is a summary, then the
\* messages of the history in their order.
C20_AssembledOrder ==
    pc = "chat" =>
        LET m == get_messages(history, compaction_summary)
            off == IF compaction_summary # None THEN 2 ELSE 1 IN
        /\ Len(m) = off + Len(history)
        /\ m[1] = Msg("system", <<"SYSTEM_PROMPT">>)
        /\ compaction_summary # None =>
              m[2] = Msg("user",
                         <<"[CONTEXT CHECKPOINT - previous conversation summary]\n">>
                         \o compaction_summary[1]
                         \o <<"\n[END CHECKPOINT - continue from here]">>)
        /\ \A i \in 1..Len(history) : m[off + i] = history[i]

C20_Witness ==
    /\ pc = "chat"
    /\ compaction_summary = Some(<<"- summary">>)
    /\ Len(history) >= 2

\* C16: after load_checkpoint(s) found a record, the ConversationState is
\* exactly the one the last save_checkpoint(s) saved; a save changes the
\* record of its session id only and leaves the ConversationState alone.
C16_CheckpointRoundTrip ==
    /\ [](acted.loaded # None =>
             /\ saved[acted.loaded[1]] # None
             /\ SessionState(acted.user) = saved[acted.loaded[1]][1])
    /\ [][\A s1 \in SessionIds, s2 \in SessionIds :
             (disk'[s1] # disk[s1] /\ s1 # s2) =>
                 /\ disk'[s2] = disk[s2]
                 /\ saved'[s2] = saved[s2]
                 /\ UNCHANGED <<lists, ctx_of>>]_vars

\* a checkpoint saved with a summary and two messages was loaded over a
\* different state, while the other session id holds a different record
C16_Witness ==
    /\ acted = Acted(1, Some("s1"))
    /\ SessionState(1).count = 1
    /\ SessionState(1).summary # None
    /\ SessionState(1).total = 7
    /\ Len(SessionState(1).history) = 2
    /\ SessionState(1).history[2].tool_calls # <<>>
    /\ disk["s2"] # None
    /\ disk["s2"] # disk["s1"]

\* C18: an operation on the agent of one user changes the ConversationState
\* of no other agent.
C18_SessionsIndependent ==
    [][\A v \in Users : v # acted'.user => SessionState(v)' = SessionState(v)]_vars

\* both agents exist, the second loaded the checkpoint the first had saved,
\* and the first went on
C18_Witness ==
    /\ agents = Users
    /\ acted = Acted(1, None)
    /\ Len(SessionState(1).history) = 2
    /\ Len(SessionState(2).history) = 1
    /\ saved["s1"] = Some(SessionState(2))

\* every tool message lies in the group of tool messages that follows the
\* assistant message whose tool_calls hold its tool_call_id
Grouped(msgs) ==
    \A i \in 1..Len(msgs) :
        msgs[i].role = "tool" =>
            \E j \in 1..(i - 1) :
                /\ msgs[j].role = "assistant"
                /\ i - j <= Len(msgs[j].tool_calls)
                /\ msgs[j].tool_calls[i - j].id = msgs[i].tool_call_id

\* C21: after a successful compact of a history whose tool calls are paired,
\* every retained tool message is preceded in the retained history by the
\* assistant message holding its call, and every retained assistant message
\* with tool_calls keeps all of its tool messages.
C21_TruncationKeepsPairs ==
    [][CompactSucceeds /\ Paired(history) /\ Grouped(history)
          => Paired(history') /\ Grouped(history')]_vars

\* C22: an iteration that starts with needs_compaction true goes to compact
\* (through the notice when there is a callback) before any model call; the
\* model is called after compact only when the summarization call was made
\* and succeeded, and the list then assembled holds the new summary and the
\* truncated history; an iteration that starts with needs_compaction false
\* goes to the model call, and no step outside compact makes a
\* summarization call.
C22_CompactionBeforeModelCall ==
    [][/\ (pc = "loop" /\ iteration' = iteration + 1) =>
              pc' = IF needs_compaction(history, compaction_summary)
                    THEN (IF on_output THEN "notice" ELSE "compact")
                    ELSE "chat"
       /\ pc = "notice" => pc' \in {"compact", "idle"}
       /\ (pc = "compact" /\ pc' # "chat") => (pc' = "idle" /\ outcome'.kind = "raised")
       /\ (pc = "compact" /\ pc' = "chat") =>
              /\ compact_resp' # None
              /\ ~compact_resp'[1].failed
              /\ compaction_count' = compaction_count + 1
              /\ compaction_summary' = Some(OrText(compact_resp'[1].content, NoSummary))
              /\ get_messages(history', compaction_summary') =
                     SubSeq(get_messages(<<>>, compaction_summary'), 1, 2)
                     \o (IF Len(history) <= KeepCount THEN history
                         ELSE LastN(history, KeepCount))
       /\ pc' = "chat" => pc \in {"loop", "compact"}
       /\ main_calls' = main_calls + 1 => pc = "chat"
       /\ pc \in {"loop", "notice", "chat", "tool_begin", "tool_exec", "tool_end"} =>
              UNCHANGED <<compact_resp, compaction_count, compaction_summary>>]_vars

C22_Witness ==
    /\ pc = "chat"
    /\ iteration = 2
    /\ compaction_count = 2
    /\ compact_resp # None
    /\ Len(history) = 4

\* the number of times tool_def.fn was invoked for the call with this id
InvocationsOf(id) == Cardinality({k \in 1..Len(invoked) : invoked[k] = id})

\* no call of the current response was invoked twice, and no call that
\* _execute_tool has not been reached for was invoked
AtMostOnce ==
    /\ \A i \in 1..Len(pending) : InvocationsOf(pending[i].id) <= 1
    /\ \A k \in 1..Len(invoked) :
          \E i \in 1..Len(pending) :
              /\ pending[i].id = invoked[k]
              /\ pc \in {"tool_begin", "tool_exec"} => i < tc_i
              /\ pc = "tool_end" => i <= tc_i

C28_HintOnFailureMark ==
    [][/\ pc = "tool_exec" =>
              \E beh \in ToolBehaviours(pending[tc_i].name) :
                  LET t == execute_tool(pending[tc_i].name,
                                        parse_args(pending[tc_i].arguments), beh).text IN
                  /\ result' = IF Head(t) \in FailureMarked
                               THEN t \o <<"\n[Hint: try an alternative approach]">>
                               ELSE t
       /\ (pc = "tool_end" /\ history' # history) =>
              history' = Append(history, ToolMsg(pending[tc_i].id, result))]_vars

C28_Witness ==
    /\ pc = "loop"
    /\ \E i \in 1..Len(history) :
          history[i].role = "tool" /\ history[i].content = <<"ok (no output)">>
    /\ history[Len(history)].role = "tool"
    /\ history[Len(history)].content =
           <<"T TIMEOUT after 30s", "\n[Hint: try an alternative approach]">>

\* C23: when chat raises its terminal failure, the error it wraps is the
\* error of the last request of the call.
C23_WrapsLastError ==
    chat_pc = "raised" =>
        /\ last_err # None
        /\ last_err[1].request = Len(requests)

\* C24: after a 429 response chat waits the seconds of the retry-after
\* header when the response has one, the delay of the current step of the
\* schedule otherwise, and then sends the request again.
C24_RateLimitWaitsAndRetries ==
    [][(/\ chat_pc = "loop"
        /\ Len(requests') = Len(requests) + 1
        /\ requests'[Len(requests')].kind = "429") =>
           LET resp == requests'[Len(requests')] IN
           /\ sleeps' = Append(sleeps, IF resp.retry_after # None
                                       THEN resp.retry_after[1].seconds
                                       ELSE RETRY_DELAYS[attempt])
           /\ chat_pc' = "loop"
           /\ attempt' <= Len(RETRY_DELAYS)]_vars

\* the bash call _execute_tool was last called with, and its command
BashCalled ==
    /\ tool_call # None
    /\ tool_call[1].name = "bash"
    /\ tool_call[1].args.command # None

\* C26: a bash call whose command contains, whatever the case, a pattern of
\* Config.blocked_commands starts no subprocess and returns the BLOCKED
\* text, whatever the other arguments of the call.
C26_BlockedNeverExecuted ==
    (BashCalled /\ is_blocked(tool_call[1].args.command[1], blocked_commands)) =>
        /\ subprocess_cmd = None
        /\ Head(tool_text) = "B BLOCKED: '"

\* C27: the keyword arguments of a bash call hold, for each of
\* working_directory, timeout and blocked_commands, the value of the call
\* when the call has the key and the configured value when it has not, and
\* the command of the call; any other tool gets the args of the call.
C27_DefaultsOnlyWhenOmitted ==
    (tool_call # None /\ tool_call[1].name \in TOOLS) =>
        LET args == tool_call[1].args IN
        /\ fn_kwargs # None
        /\ IF tool_call[1].name = "bash"
           THEN /\ fn_kwargs[1].command = args.command
                /\ fn_kwargs[1].working_directory =
                       IF args.working_directory # None THEN args.working_directory
                       ELSE Some(".")
                /\ fn_kwargs[1].timeout =
                       IF args.timeout # None THEN args.timeout ELSE Some(30)
                /\ fn_kwargs[1].blocked_commands =
                       IF args.blocked_commands # None THEN args.blocked_commands
                       ELSE Some(ListVal(blocked_commands))
           ELSE fn_kwargs[1] = args

C27_Witness ==
    /\ BashCalled
    /\ tool_call[1].args.working_directory = Some("/tmp")
    /\ tool_call[1].args.timeout = None
    /\ tool_call[1].args.blocked_commands = Some(NullVal)
    /\ fn_kwargs # None
    /\ fn_kwargs[1].working_directory = Some("/tmp")
    /\ fn_kwargs[1].timeout = Some(30)
    /\ subprocess_cmd # None

\* the non-empty delta texts of the data events before the first sentinel
RECURSIVE FragmentsBeforeSentinel(_)
FragmentsBeforeSentinel(lines) ==
    IF lines = <<>> THEN <<>>
    ELSE LET l == Head(lines) IN
         IF l.prefix /\ l.done THEN <<>>
         ELSE IF /\ l.prefix
                 /\ l.json
                 /\ l.is_object
                 /\ l.choices # None
                 /\ l.choices[1] # <<>>
                 /\ l.choices[1][1] # ""
         THEN <<l.choices[1][1]>> \o FragmentsBeforeSentinel(Tail(lines))
         ELSE FragmentsBeforeSentinel(Tail(lines))

\* the fragments yielded are those of the lines read so far
StreamYieldsFragments ==
    /\ stream_pc = "reading" => yielded = FragmentsBeforeSentinel(stream_read)
    /\ stream_pc = "done" =>
          yielded = FragmentsBeforeSentinel(stream_read \o stream_lines)

\* C29: no line of the response aborts chat_stream, and what it yields is,
\* in order, the non-empty delta texts of the data events before the first
\* sentinel line.
C29_StreamSkipsMalformed ==
    /\ stream_pc # "raised"
    /\ StreamYieldsFragments

\* the clients the agents hold
HeldClients ==
    UNION {{agent_llm[u][1].main_llm, agent_llm[u][1].compact_llm} : u \in AgentsWithClients}

\* C30: every client held by an agent sees the endpoint, credential and
\* model it was constructed with, no client has sent requests with two
\* different profiles, and a change of the model of a profile gives every
\* agent a client constructed after the change.
C30_ProfileImmutable ==
    /\ [](/\ \A c \in HeldClients : profile_of(c) = clients[c].built
          /\ \A c \in 1..Len(clients) : Cardinality(used[c]) <= 1)
    /\ [][\A target \in {"main", "compact"} :
              profiles'[target].model # profiles[target].model =>
                  \A u \in AgentsWithClients :
                      LET c == agent_llm'[u][1][IF target = "compact" THEN "compact_llm"
                                               ELSE "main_llm"] IN
                      /\ c > Len(clients)
                      /\ clients'[c].built = profiles'[target]
                      /\ SubSeq(clients', 1, Len(clients)) = clients]_vars

C30_Witness ==
    /\ AgentsWithClients = Users
    /\ \E c \in 1..Len(clients) :
          /\ c \notin HeldClients
          /\ used[c] = {ProfileOf("https://llm.example/v1", "k1", "m1")}
    /\ \A u \in Users :
          used[agent_llm[u][1].main_llm] = {ProfileOf("https://llm.example/v1", "k1", "m2")}

\* C35: one call of chat sends at most 3 requests, whatever the responses
\* (a 429 at every request included), and a call in its loop always comes
\* to return or raise.
C35_AtMostThreeRequests ==
    /\ [](Len(requests) <= 3)
    /\ (chat_pc = "loop") ~> (chat_pc \in {"returned", "raised", "error"})

C35_Witness ==
    /\ chat_pc = "raised"
    /\ Len(requests) = 3
    /\ \A i \in 1..3 : requests[i].kind = "429"
    /\ sleeps = <<2, 2, 2>>

\* s is the end of t: the same messages in the same order, none missing
\* between them
IsSuffixOf(s, t) ==
    /\ Len(s) <= Len(t)
    /\ s = SubSeq(t, Len(t) - Len(s) + 1, Len(t))

\* the messages of h stand in the request req, one after the other and in
\* their order
ContainsInOrder(req, h) ==
    \E off \in 0..(Len(req) - Len(h)) :
        \A i \in 1..Len(h) : req[off + i] = h[i]

\* C34: the history is a contiguous suffix of the sequence of all messages
\* appended so far.  The sequence of appended messages only grows at its end,
\* so the history stays a suffix of it exactly when every step other than a
\* reset either leaves the history alone, appends one message at its end, or
\* cuts messages from its front; only a successful compaction cuts, and the
\* history it cuts from stands whole, in order, in its summarization request.
C34_HistoryIsSuffix ==
    [][outcome'.op # "reset" =>
         \/ history' = history
         \/ /\ Len(history') = Len(history) + 1
            /\ SubSeq(history', 1, Len(history)) = history
            /\ compaction_count' = compaction_count
         \/ /\ compaction_count' = compaction_count + 1
            /\ compact_resp' # None /\ ~compact_resp'[1].failed
            /\ IsSuffixOf(history', history)
            /\ ContainsInOrder(summary_messages(history, compaction_summary),
                               history)]_vars

\* a compaction dropped the two oldest of eight messages of a run that ended
\* at the iteration limit
C34_Witness ==
    /\ outcome.op = "compact" /\ outcome.kind = "returned"
    /\ compaction_count = 1
    /\ Len(history) = 6
    /\ history[6] = Msg("assistant", LimitNotice)
    /\ history[1].role # "user"

\* the timeout a bash call passes to bash_exec: the one of its args, or the
\* configured one when the args have none
PassedTimeout == IF tool_call[1].args.timeout # None
                 THEN tool_call[1].args.timeout[1]
                 ELSE command_timeout

\* C32: whenever bash_exec returns the timeout result, proc.kill() has been
\* called on the subprocess it started with the command of the call, that
\* subprocess is not running, and the timeout waited for and reported is
\* the one passed to the call.
C32_TimeoutKillsSubprocess ==
    (BashCalled /\ Head(tool_text) = "T TIMEOUT after ") =>
        /\ proc # None
        /\ proc[1].command = tool_call[1].args.command[1]
        /\ proc[1].kill_called
        /\ proc[1].state # "running"
        /\ proc[1].timeout = PassedTimeout
        /\ tool_text = <<"T TIMEOUT after ">> \o IntText(PassedTimeout) \o <<"s: '">>
                       \o tool_call[1].args.command[1] \o <<"'">>

\* a call with its own timeout of 5 seconds ran into it and its shell was
\* killed
C32_Witness ==
    /\ BashCalled
    /\ tool_call[1].args.timeout = Some(5)
    /\ Head(tool_text) = "T TIMEOUT after "
    /\ proc # None /\ proc[1].state = "killed" /\ proc[1].timeout = 5

\* C31: for two texts with len(a) <= len(b) the estimate of a is at most the
\* estimate of b, and the estimate of a message list after an append is at
\* least its estimate before.
C31_EstimateMonotonic ==
    /\ TextLen(est_texts.a) <= TextLen(est_texts.b) =>
           est_texts.tokens_a <= est_texts.tokens_b
    /\ TextLen(est_texts.b) <= TextLen(est_texts.a) =>
           est_texts.tokens_b <= est_texts.tokens_a
    /\ est_list.before <= est_list.after

\* a text of 3 characters against one of 7 (estimates 1 and 2), and a list
\* of two messages that grew by the estimate of its tool result
C31_Witness ==
    /\ TextLen(est_texts.a) = 3 /\ TextLen(est_texts.b) = 7
    /\ est_texts.tokens_a = 1 /\ est_texts.tokens_b = 2
    /\ Len(est_list.messages) = 2
    /\ est_list.messages[2] = ToolMsg(1, <<"LongText">>)
    /\ est_list.after = est_list.before + 3142

\* the last call was patch_file on an existing file holding the search
\* string more than once
PatchedMany ==
    /\ file_call # None
    /\ file_call[1].tool = "patch_file"
    /\ file_call[1].before # None
    /\ str_count(file_call[1].before[1], file_call[1].search) > 1

\* C33: when the search string occurs more than once in the file, the file
\* after patch_file is the old text with every occurrence of search
\* replaced by replace, as the returned text says.
C33_ReplacesAllOccurrences ==
    PatchedMany =>
        /\ file_text = Some(str_replace(file_call[1].before[1], file_call[1].search,
                                        file_call[1].replace))
        /\ file_ret = <<"W Found ">>
                      \o IntText(str_count(file_call[1].before[1], file_call[1].search))
                      \o <<" occurrences. Replacing all.">>

====
